---- MODULE Spec2Model ----
(***************************************************************************)
(* State-machine model of the copy-trading bot: RiskManager (exposure      *)
(* ledger), OrderExecutor, ArbitrageDetector cache, WalletMonitor and      *)
(* CopyTrader.                                                             *)
(*                                                                         *)
(* Units: USD amounts are whole dollars, prices are cents (1..99 for a     *)
(* share price, 0 for "absent/falsy"), times are whole seconds.  The input *)
(* sets are chosen so that every division the code performs on them is     *)
(* exact, hence integer arithmetic agrees with the code's doubles.         *)
(***************************************************************************)
EXTENDS Integers, Sequences, FiniteSets, TLC

None == "none"

Markets == {"m1", "m2"}
Outcomes == {"YES", "NO"}
Sides == {"buy", "sell"}

----------------------------------------------------------------------------
(* Bounds of the model *)

\* most positions the ledger holds at once (RiskManager API specification)
MaxOpen == 2
\* last calendar day the clock reaches
MaxDay == 2
\* |dailyPnl| stays within this many dollars (RiskManager API specification)
MaxPnl == 500
\* most position records the venue lists for one wallet
MaxVenue == 2
\* last second the wall clock reaches
MaxTime == 5
\* most orders the venue accepts in one run
MaxOrders == 2
MaxIter == 2

----------------------------------------------------------------------------
(* Input sets *)

\* RiskConfig values: the defaults of loadConfig, and a tighter deployment
\* (the three ceilings are read from the environment)
DefaultRiskConfig ==
    [maxTotalExposureUsd |-> 10000, maxPositionPerMarketUsd |-> 2000,
     maxDailyLossUsd |-> 500, enableAutoHedge |-> TRUE]
TightRiskConfig ==
    [maxTotalExposureUsd |-> 2500, maxPositionPerMarketUsd |-> 2000,
     maxDailyLossUsd |-> 500, enableAutoHedge |-> TRUE]
RiskConfigs == {DefaultRiskConfig, TightRiskConfig}

\* arguments of the RiskManager calls: proposed sizes, exit prices (0 = none
\* given) and the positions recorded (entryPrice 0 = none given)
SizesUsd == {0, 500, 1000}
ExitPrices == {0, 25, 75}
PositionInputs ==
    { [outcome |-> "YES", side |-> "buy",  sizeUsd |-> 1000, entryPrice |-> 50],
      [outcome |-> "YES", side |-> "buy",  sizeUsd |-> 500,  entryPrice |-> 50],
      [outcome |-> "NO",  side |-> "buy",  sizeUsd |-> 500,  entryPrice |-> 0],
      [outcome |-> "NO",  side |-> "buy",  sizeUsd |-> 1000, entryPrice |-> 50],
      [outcome |-> "YES", side |-> "sell", sizeUsd |-> 1000, entryPrice |-> 50] }

----------------------------------------------------------------------------
VARIABLES
    \* RiskManager
    config,          \* RiskManager.config
    positions,       \* RiskManager.positions: market id -> list of positions
    totalExposure,   \* RiskManager.totalExposure
    dailyPnl,        \* RiskManager.dailyPnl
    lastResetDate,   \* RiskManager.lastResetDate (the day it was taken)
    today,           \* the wall clock's day (new Date()), counted in days
    riskRet,         \* the last call of the ledger's client and what it returned:
                     \* ok is canOpenPosition's boolean or "closePosition
                     \* returned a number", pnl is that number
    \* configuration
    walletConfig,    \* wallet -> its WalletConfig (BotConfig.wallets)
    \* venue and clock
    venueFeed,       \* what the venue has to show in this run
    now,             \* the wall clock as last read (seconds)
    venuePositions,  \* wallet -> the position list the Data API returns
    \* WalletMonitor
    lastTradeTimestamps, \* WalletMonitor.lastTradeTimestamps (the watermark)
    tradeHistory,        \* WalletMonitor.tradeHistory
    lastKnownPositions,  \* WalletMonitor.lastKnownPositions
    pc,              \* wallet -> where its checkWallet / processTrade stands
    since,           \* wallet -> checkWallet's local `since`
    listed,          \* wallet -> the position list its poll read
    batch,           \* wallet -> the trades of this poll not yet iterated
    \* CopyTrader
    call,            \* wallet -> locals of the processTrade in flight
    copiedTrades,    \* wallet -> keys of CopyTrader.copiedTrades
    lastOutcome,     \* wallet -> the last record its check handled in this cycle
                     \* and how that ended
    copiedFills,     \* wallet -> venue records whose processTrade returned true
    \* OrderExecutor
    activeOrders,    \* OrderExecutor.activeOrders, indexed by order id
    \* ArbitrageDetector
    activeOpportunities, \* ArbitrageDetector.activeOpportunities
    scannedBooks,    \* market -> the order book the last scanMarkets call of
                     \* the detector's client got for it
    execRet,         \* the last call of the executor's client: what the venue
                     \* answered and what the call returned
    \* PolymarketArbCopyBot: the three loops of start()
    running,         \* PolymarketArbCopyBot.running
    monitorRunning,  \* WalletMonitor.running
    loopPc,          \* loop -> the await it is suspended in ("idle" before
                     \* start(), "done" once its while loop has exited)
    iterations,      \* loop -> number of iterations it has begun
    atStop,          \* loopPc as the first stop() call found it
    \* PolymarketClient
    clientRet        \* the last getWalletTrades call of the client's caller:
                     \* what each source had and what the call returned

riskVars == <<config, positions, totalExposure, dailyPnl, lastResetDate, today, riskRet>>

monitorVars == <<lastTradeTimestamps, tradeHistory, lastKnownPositions, pc, since, listed, batch>>

traderVars == <<call, copiedTrades, lastOutcome, copiedFills>>

loopVars == <<running, monitorRunning, loopPc, iterations, atStop>>

pipeVars == <<loopVars, clientRet, walletConfig, venueFeed, now, venuePositions, monitorVars, traderVars, activeOrders,
              activeOpportunities, scannedBooks, execRet>>

vars == <<riskVars, pipeVars>>

----------------------------------------------------------------------------
(* Helpers *)

RECURSIVE SumSizes(_)
\* positions.reduce((sum, p) => sum + p.sizeUsd, 0)
SumSizes(ps) == IF ps = <<>> THEN 0 ELSE Head(ps).sizeUsd + SumSizes(Tail(ps))

RECURSIVE SumOver(_, _)
SumOver(f, S) ==
    IF S = {} THEN 0
    ELSE LET x == CHOOSE y \in S : TRUE IN f[x] + SumOver(f, S \ {x})

\* ps.splice(i, 1)
RemoveAt(ps, i) == SubSeq(ps, 1, i - 1) \o SubSeq(ps, i + 1, Len(ps))

OpenCount(pos) == SumOver([m \in Markets |-> Len(pos[m])], Markets)

----------------------------------------------------------------------------
(* RiskManager *)

\* variant: the daily-loss comparison is strict, so a loss of exactly the
\* ceiling does not stop trading
canOpenVerdictStrictLoss(marketId, sizeUsd) ==
    IF dailyPnl < -config.maxDailyLossUsd THEN "daily_loss"
    ELSE IF totalExposure + sizeUsd > config.maxTotalExposureUsd THEN "total_exposure"
    ELSE IF SumSizes(positions[marketId]) + sizeUsd > config.maxPositionPerMarketUsd
         THEN "market_exposure"
    ELSE "ok"

\* variant: the per-market ceiling is not checked
canOpenVerdictNoMarketCheck(marketId, sizeUsd) ==
    IF dailyPnl <= -config.maxDailyLossUsd THEN "daily_loss"
    ELSE IF totalExposure + sizeUsd > config.maxTotalExposureUsd THEN "total_exposure"
    ELSE "ok"

\* variant: the per-market check runs before the total-exposure check
canOpenVerdictMarketFirst(marketId, sizeUsd) ==
    IF dailyPnl <= -config.maxDailyLossUsd THEN "daily_loss"
    ELSE IF SumSizes(positions[marketId]) + sizeUsd > config.maxPositionPerMarketUsd
         THEN "market_exposure"
    ELSE IF totalExposure + sizeUsd > config.maxTotalExposureUsd THEN "total_exposure"
    ELSE "ok"

\* which check of canOpenPosition rejects first ("ok" when none does)
canOpenVerdict(marketId, sizeUsd) ==
    IF dailyPnl <= -config.maxDailyLossUsd THEN "daily_loss"
    ELSE IF totalExposure + sizeUsd > config.maxTotalExposureUsd THEN "total_exposure"
    ELSE IF SumSizes(positions[marketId]) + sizeUsd > config.maxPositionPerMarketUsd
         THEN "market_exposure"
    ELSE "ok"

canOpenPosition(marketId, sizeUsd) == canOpenVerdict(marketId, sizeUsd) = "ok"

\* the ledger after recordPosition; led = [positions, totalExposure]
recordPosition(led, marketId, sizeUsd, outcome, side, entryPrice) ==
    [positions |->
        [led.positions EXCEPT ![marketId] =
            Append(@, [outcome |-> outcome, side |-> side, sizeUsd |-> sizeUsd,
                       entryPrice |-> entryPrice])],
     totalExposure |-> led.totalExposure + sizeUsd]

\* variant: a position of either side matches
firstMatchAnySide(ps, outcome) ==
    LET idx == {i \in 1..Len(ps) : ps[i].outcome = outcome}
    IN IF idx = {} THEN 0 ELSE CHOOSE i \in idx : \A j \in idx : i <= j

\* variant: the newest matching position is picked
firstMatchNewest(ps, outcome) ==
    LET idx == {i \in 1..Len(ps) : ps[i].outcome = outcome /\ ps[i].side = "buy"}
    IN IF idx = {} THEN 0 ELSE CHOOSE i \in idx : \A j \in idx : i >= j

\* index of the first position matching outcome with side buy, 0 when none
firstMatch(ps, outcome) ==
    LET idx == {i \in 1..Len(ps) : ps[i].outcome = outcome /\ ps[i].side = "buy"}
    IN IF idx = {} THEN 0 ELSE CHOOSE i \in idx : \A j \in idx : i <= j

\* pnl = (exitPrice - entryPrice) * sizeUsd / entryPrice, 0 without both prices
realizedPnl(p, exitPrice) ==
    IF exitPrice # 0 /\ p.entryPrice > 0
    THEN ((exitPrice - p.entryPrice) * p.sizeUsd) \div p.entryPrice
    ELSE 0

\* variant: the closed position's size is not taken off the total exposure
closePositionKeepsExposure(led, marketId, outcome, exitPrice) ==
    LET ps == led.positions[marketId]
        i == firstMatch(ps, outcome)
    IN IF i = 0
       THEN [led |-> led, closed |-> FALSE, pnl |-> 0]
       ELSE LET pnl == realizedPnl(ps[i], exitPrice)
            IN [led |-> [positions |-> [led.positions EXCEPT ![marketId] = RemoveAt(ps, i)],
                         totalExposure |-> led.totalExposure,
                         dailyPnl |-> led.dailyPnl + pnl],
                closed |-> TRUE, pnl |-> pnl]

\* the ledger after closePosition and the value returned (closed = FALSE for
\* null, else pnl); led = [positions, totalExposure, dailyPnl]
closePosition(led, marketId, outcome, exitPrice) ==
    LET ps == led.positions[marketId]
        i == firstMatch(ps, outcome)
    IN IF i = 0
       THEN [led |-> led, closed |-> FALSE, pnl |-> 0]
       ELSE LET pnl == realizedPnl(ps[i], exitPrice)
            IN [led |-> [positions |-> [led.positions EXCEPT ![marketId] = RemoveAt(ps, i)],
                         totalExposure |-> led.totalExposure - ps[i].sizeUsd,
                         dailyPnl |-> led.dailyPnl + pnl],
                closed |-> TRUE, pnl |-> pnl]

\* Date.getDate(): the day of the month (1..MonthLen) of a date given as a
\* count of days; months are MonthLen days long here
MonthLen == 2
getDate(d) == (d % MonthLen) + 1

\* dailyPnl and lastResetDate after the lazy reset at the top of getExposure
pnlAfterReset == IF getDate(today) # getDate(lastResetDate) THEN 0 ELSE dailyPnl
resetDateAfterReset ==
    IF getDate(today) # getDate(lastResetDate) THEN today ELSE lastResetDate

\* the ExposureMetrics getExposure returns
getExposure ==
    [totalExposureUsd |-> totalExposure,
     dailyPnlUsd |-> pnlAfterReset,
     openPositions |-> OpenCount(positions),
     marketExposures |-> [m \in Markets |-> SumSizes(positions[m])],
     availableExposure |-> config.maxTotalExposureUsd - totalExposure]

\* positions.filter(p => p.outcome === o).reduce((sum, p) => sum + p.sizeUsd, 0)
outcomeExposure(ps, o) ==
    SumOver([i \in 1..Len(ps) |-> ps[i].sizeUsd], {i \in 1..Len(ps) : ps[i].outcome = o})

\* variant: an imbalance of exactly 20% already counts
shouldHedgeAtTwentyPercent(marketId) ==
    LET ps == positions[marketId]
        yesExposure == outcomeExposure(ps, "YES")
        noExposure == outcomeExposure(ps, "NO")
        total == yesExposure + noExposure
    IN /\ config.enableAutoHedge
       /\ Len(ps) >= 2
       /\ total # 0
       /\ 10 * (IF yesExposure >= noExposure THEN yesExposure - noExposure
                ELSE noExposure - yesExposure) >= 2 * total

\* shouldHedge: imbalance = |yes - no| / total > 0.2, compared as
\* 10 * |yes - no| > 2 * total
shouldHedge(marketId) ==
    LET ps == positions[marketId]
        yesExposure == outcomeExposure(ps, "YES")
        noExposure == outcomeExposure(ps, "NO")
        total == yesExposure + noExposure
    IN /\ config.enableAutoHedge
       /\ Len(ps) >= 2
       /\ total # 0
       /\ 10 * (IF yesExposure >= noExposure THEN yesExposure - noExposure
                ELSE noExposure - yesExposure) > 2 * total

----------------------------------------------------------------------------
(* Wallets, their configuration and what the venue can show for them *)

Wallets == {"w1", "w2"}

\* "no timestamp": an undefined Date, or a record without createdAt
NoTime == -1

\* WalletConfig values: the wallet of loadConfig (arbitrage signal required),
\* the same mirrored directionally, and a wallet switched off.
\* positionSizeMultiplier is in percent (1 = 0.01); marketsFilter NoFilter = undefined.
NoFilter == {None}
ArbWalletConfig ==
    [enabled |-> TRUE, maxPositionSizeUsd |-> 2000, positionSizeMultiplier |-> 1,
     marketsFilter |-> NoFilter, requireArbSignal |-> TRUE]
DirectionalWalletConfig ==
    [enabled |-> TRUE, maxPositionSizeUsd |-> 2000, positionSizeMultiplier |-> 1,
     marketsFilter |-> NoFilter, requireArbSignal |-> FALSE]
DisabledWalletConfig ==
    [enabled |-> FALSE, maxPositionSizeUsd |-> 2000, positionSizeMultiplier |-> 1,
     marketsFilter |-> NoFilter, requireArbSignal |-> FALSE]
\* a wallet copied on market m2 only, and only with an arbitrage signal
FilteredArbWalletConfig ==
    [enabled |-> TRUE, maxPositionSizeUsd |-> 2000, positionSizeMultiplier |-> 1,
     marketsFilter |-> {"m2"}, requireArbSignal |-> TRUE]

\* the wallets WalletMonitor keeps (its constructor drops the disabled ones)
Monitored == {w \in Wallets : walletConfig[w].enabled}

ArbConfig ==
    [minArbProfitPct |-> 1, maxArbProfitPct |-> 5, internalArbEnabled |-> TRUE,
     crossPlatformEnabled |-> FALSE, minLiquidityUsd |-> 1000]

\* a record of the Data API's /positions list; fill names the wallet's fill the
\* record stands for (identification only, no code reads it)
PositionRecord(f, id, m, o, sz, t, tx) ==
    [fill |-> f, id |-> id, marketId |-> m, outcome |-> o, price |-> 50,
     size |-> sz, createdAt |-> t, txHash |-> tx]

\* the instants at which the clock is read: at once, within the dedup
\* tolerance of the first reading, and at or beyond it
ClockReadings == {0, 3} \cup (5..MaxTime)

\* what the venue has to show in a run: the records its position list may
\* come to hold for each wallet, and what the fallback sources (chain log,
\* /activity, /trades) may return, already in trade format, when the position
\* list is empty or its fetch failed
PositionFeed ==
    [positions |->
        [w \in Wallets |->
            IF w = "w1"
            THEN { PositionRecord("f1", None, "m1", "YES", 100000, NoTime, None),
                   PositionRecord("f2", "p1", "m1", "YES", 100000, 2, None),
                   PositionRecord("f4", "p2", "m2", "NO", 500000, 1, "0xa"),
                   PositionRecord("f5", "p1", "m2", "NO", 100000, 9, None) }
            ELSE {}],
     fallback |-> { <<>> }]

ActivityFeed ==
    [positions |->
        [w \in Wallets |->
            IF w = "w1"
            THEN { PositionRecord("f6", None, "m2", "YES", 1000, 4, None) }
            ELSE {}],
     fallback |->
        { <<>>,
          << [fill |-> "t1", marketId |-> "m1", outcome |-> "YES", side |-> "sell",
              price |-> 50, size |-> 100000, timestamp |-> 3, txHash |-> "0xc",
              positionId |-> None] >> }]

\* two monitored wallets: one whose list holds a record that does not parse
\* (no price) beside a good one, and one with a single good record
TwoWalletFeed ==
    [positions |->
        [w \in Wallets |->
            IF w = "w1"
            THEN { [PositionRecord("b0", None, "m1", "YES", 100000, 1, None)
                       EXCEPT !.price = 0],
                   PositionRecord("h1", None, "m1", "YES", 100000, 2, None) }
            ELSE { PositionRecord("g1", "q1", "m2", "NO", 100000, 3, "0xb") }],
     fallback |-> { <<>> }]

\* two monitored wallets that each open a position in the same market, large
\* enough for each copy to be 1500
SameMarketFeed ==
    [positions |->
        [w \in Wallets |->
            IF w = "w1"
            THEN { PositionRecord("s1", "r1", "m1", "YES", 300000, 1, "0xd") }
            ELSE { PositionRecord("s2", "r2", "m1", "NO", 300000, 2, "0xe") }],
     fallback |-> { <<>> }]

VenueFeeds == {PositionFeed, ActivityFeed}

----------------------------------------------------------------------------
(* ArbitrageDetector *)

NoOpp == [opportunityType |-> None]

Ask(p, sz) == [price |-> p, size |-> sz]

\* order books getOrderBook may return (asks per outcome); NoBook = null/error
NoBook == [error |-> TRUE]
Books ==
    { [YES |-> <<Ask(49, 3000), Ask(48, 3000)>>, NO |-> <<Ask(49, 3000)>>],
      [YES |-> <<Ask(52, 3000)>>, NO |-> <<Ask(50, 3000)>>],
      [YES |-> <<Ask(40, 3000)>>, NO |-> <<Ask(40, 3000)>>],
      NoBook }

\* the books of Books and more for the detector alone: sums at both sides of
\* the fee threshold, a thin NO side, and an outcome without asks
ScanBooks ==
    Books \cup
    { [YES |-> <<Ask(49, 3000)>>, NO |-> <<Ask(49, 3000)>>],
      [YES |-> <<Ask(49, 3000)>>, NO |-> <<Ask(50, 3000)>>],
      [YES |-> <<Ask(48, 3000)>>, NO |-> <<Ask(49, 1000)>>],
      [YES |-> <<>>, NO |-> <<Ask(49, 3000)>>],
      [YES |-> <<Ask(47, 3000)>>, NO |-> <<Ask(48, 3000), Ask(60, 3000)>>] }

\* getBestAsk's null
NoAsk == [price |-> -1, size |-> 0]

\* getBestAsk: the lowest-priced ask of the outcome, NoAsk when there is none
getBestAsk(orderBook, o) ==
    LET asks == orderBook[o]
    IN IF Len(asks) = 0 THEN NoAsk
       ELSE asks[CHOOSE i \in 1..Len(asks) :
                   \A j \in 1..Len(asks) :
                      asks[i].price < asks[j].price \/ (asks[i].price = asks[j].price /\ i <= j)]

\* variant: the threshold is break-even, not 1% after fees
detectInternalArbitrageBreakEven(marketId, orderBook) ==
    LET yesBestAsk == getBestAsk(orderBook, "YES")
        noBestAsk == getBestAsk(orderBook, "NO")
        totalCost == yesBestAsk.price + noBestAsk.price
        feeAdjustedCost == totalCost * 101
    IN IF yesBestAsk = NoAsk \/ noBestAsk = NoAsk THEN NoOpp
       ELSE IF feeAdjustedCost < 10000
       THEN [marketId |-> marketId, opportunityType |-> "internal",
             yesPrice |-> yesBestAsk.price, noPrice |-> noBestAsk.price,
             totalCost |-> totalCost,
             profitNum |-> 10000 - feeAdjustedCost, profitDen |-> feeAdjustedCost,
             liquidityYes |-> yesBestAsk.size * yesBestAsk.price,
             liquidityNo |-> noBestAsk.size * noBestAsk.price]
       ELSE NoOpp

\* detectInternalArbitrage; feeAdjustedCost = totalCost * 1.01 is kept as
\* totalCost * 101 (cents * 100), profitPct as the fraction profitNum / profitDen,
\* the liquidities in cents
detectInternalArbitrage(marketId, orderBook) ==
    LET yesBestAsk == getBestAsk(orderBook, "YES")
        noBestAsk == getBestAsk(orderBook, "NO")
        totalCost == yesBestAsk.price + noBestAsk.price
        feeAdjustedCost == totalCost * 101
    IN IF yesBestAsk = NoAsk \/ noBestAsk = NoAsk THEN NoOpp
       ELSE IF feeAdjustedCost < 9900
       THEN [marketId |-> marketId, opportunityType |-> "internal",
             yesPrice |-> yesBestAsk.price, noPrice |-> noBestAsk.price,
             totalCost |-> totalCost,
             profitNum |-> 10000 - feeAdjustedCost, profitDen |-> feeAdjustedCost,
             liquidityYes |-> yesBestAsk.size * yesBestAsk.price,
             liquidityNo |-> noBestAsk.size * noBestAsk.price]
       ELSE NoOpp

\* isValid: profit and liquidity bounds
isValid(opp) ==
    /\ ~(opp.profitNum * 100 < ArbConfig.minArbProfitPct * opp.profitDen)
    /\ ~(opp.profitNum * 100 > ArbConfig.maxArbProfitPct * opp.profitDen)
    /\ ~(opp.liquidityYes < ArbConfig.minLiquidityUsd * 100)
    /\ ~(opp.liquidityNo < ArbConfig.minLiquidityUsd * 100)

\* variant: a computed opportunity is returned without the validity check
scanMarketKeepsInvalid(marketId, orderBook) ==
    IF orderBook = NoBook THEN NoOpp
    ELSE LET opp == IF ArbConfig.internalArbEnabled
                    THEN detectInternalArbitrage(marketId, orderBook) ELSE NoOpp
         IN opp

\* scanMarket: the opportunity returned, NoOpp for null
scanMarket(marketId, orderBook) ==
    IF orderBook = NoBook THEN NoOpp
    ELSE LET opp == IF ArbConfig.internalArbEnabled
                    THEN detectInternalArbitrage(marketId, orderBook) ELSE NoOpp
         IN IF opp # NoOpp /\ isValid(opp) THEN opp ELSE NoOpp

\* variant: one failed scan rejects the whole batch, nothing is returned or
\* cached
scanMarketsAllOrNothing(books) ==
    IF \E m \in Markets : books[m] = NoBook
    THEN [opportunities |-> {}, activeOpportunities |-> activeOpportunities]
    ELSE [opportunities |-> {scanMarket(m, books[m]) : m \in Markets} \ {NoOpp},
          activeOpportunities |->
              [m \in Markets |->
                  IF scanMarket(m, books[m]) # NoOpp
                  THEN scanMarket(m, books[m]) ELSE activeOpportunities[m]]]

\* scanMarkets, books[m] being what getOrderBook(m) gave (NoBook: null or an
\* exception): the opportunities returned, and the cache afterwards, where
\* each opportunity found is set under its market id
scanMarkets(books) ==
    [opportunities |-> {scanMarket(m, books[m]) : m \in Markets} \ {NoOpp},
     activeOpportunities |->
         [m \in Markets |->
             IF scanMarket(m, books[m]) # NoOpp
             THEN scanMarket(m, books[m]) ELSE activeOpportunities[m]]]

getOpportunity(marketId) == activeOpportunities[marketId]

\* variant: every market has a signal
hasOpportunityAlways(marketId) == TRUE

hasOpportunity(marketId) ==
    activeOpportunities[marketId] # NoOpp /\ isValid(activeOpportunities[marketId])

----------------------------------------------------------------------------
(* PolymarketClient.getWalletTrades and WalletMonitor *)

\* variant: no position is dropped for its age
transformPositionsToTradesUnfiltered(ps, sinceT, t) ==
    LET Keep(p) == TRUE
        kept == SelectSeq(ps, Keep)
    IN [i \in 1..Len(kept) |->
          [fill |-> kept[i].fill,
           marketId |-> kept[i].marketId,
           outcome |-> IF kept[i].outcome = None THEN "YES" ELSE kept[i].outcome,
           side |-> "buy",
           price |-> kept[i].price,
           size |-> kept[i].size,
           timestamp |-> IF kept[i].createdAt = NoTime THEN t ELSE kept[i].createdAt,
           txHash |-> kept[i].txHash,
           positionId |-> kept[i].id]]

\* transformPositionsToTrades: positions not newer than `since` are dropped,
\* the rest become buy trades; a record without a timestamp gets the current time
transformPositionsToTrades(ps, sinceT, t) ==
    LET Keep(p) == ~(sinceT # NoTime /\ p.createdAt # NoTime /\ p.createdAt <= sinceT)
        kept == SelectSeq(ps, Keep)
    IN [i \in 1..Len(kept) |->
          [fill |-> kept[i].fill,
           marketId |-> kept[i].marketId,
           outcome |-> IF kept[i].outcome = None THEN "YES" ELSE kept[i].outcome,
           side |-> "buy",
           price |-> kept[i].price,
           size |-> kept[i].size,
           timestamp |-> IF kept[i].createdAt = NoTime THEN t ELSE kept[i].createdAt,
           txHash |-> kept[i].txHash,
           positionId |-> kept[i].id]]

\* getWalletTrades: the position list when it is not empty, else the fallback
getWalletTrades(ps, sinceT, t, fallback) ==
    IF Len(ps) > 0 THEN transformPositionsToTrades(ps, sinceT, t) ELSE fallback

\* the fallback of getWalletTrades: the chain log, then /activity, each used
\* when it has trades, then /trades
fallbackTrades(chain, activity, trades) ==
    IF Len(chain) > 0 THEN chain
    ELSE IF Len(activity) > 0 THEN activity
    ELSE trades

NoClientRet ==
    [op |-> None, positions |-> <<>>, since |-> NoTime, chain |-> <<>>, activity |-> <<>>,
     trades |-> <<>>, result |-> <<>>]

NoTrade == [marketId |-> None]

\* parseTrade: NoTrade for null
parseTrade(tradeData, w, t) ==
    IF \/ tradeData.marketId = None
       \/ tradeData.outcome \notin Outcomes
       \/ tradeData.side \notin Sides
       \/ tradeData.price <= 0
    THEN NoTrade
    ELSE [fill |-> tradeData.fill,
          walletAddress |-> w,
          marketId |-> tradeData.marketId,
          outcome |-> tradeData.outcome,
          side |-> tradeData.side,
          price |-> tradeData.price,
          size |-> tradeData.size,
          sizeUsd |-> (tradeData.size * tradeData.price) \div 100,
          timestamp |-> IF tradeData.timestamp = NoTime THEN t ELSE tradeData.timestamp,
          txHash |-> tradeData.txHash]

Abs(x) == IF x < 0 THEN -x ELSE x

\* the tolerance of the fallback identity check (5000 ms)
DedupWindow == 5

\* variant: the transaction id is the only identity
isNewTradeByHashOnly(trade, walletTrades) ==
    \A i \in 1..Len(walletTrades) :
        ~(trade.txHash # None /\ walletTrades[i].txHash = trade.txHash)

\* isNewTrade against the wallet's history
isNewTrade(trade, walletTrades) ==
    \A i \in 1..Len(walletTrades) :
        LET existingTrade == walletTrades[i]
        IN /\ ~(trade.txHash # None /\ existingTrade.txHash = trade.txHash)
           /\ ~(/\ existingTrade.marketId = trade.marketId
                /\ existingTrade.outcome = trade.outcome
                /\ existingTrade.side = trade.side
                /\ Abs(existingTrade.timestamp - trade.timestamp) < DedupWindow)

\* variant: no id is ever known
knownPositionsHasNever(w, positionId) == FALSE

\* the position-id check of checkWallet: the record carries an id and the
\* wallet's known set has it
knownPositionsHas(w, positionId) ==
    positionId # None /\ positionId \in lastKnownPositions[w]

----------------------------------------------------------------------------
(* CopyTrader *)

\* variant: the key also carries the timestamp
tradeKeyWithTimestamp(trade) ==
    <<trade.txHash, trade.marketId, trade.outcome, trade.side, trade.timestamp>>

\* variant: an event without a transaction id is keyed by its timestamp
tradeKeyUntaggedByTime(trade) ==
    <<trade.txHash, trade.marketId, trade.outcome, trade.side,
      IF trade.txHash = None THEN trade.timestamp ELSE NoTime>>

\* the composite key of processTrade; an absent transaction id takes part in
\* the key as it is (the text "undefined")
tradeKey(trade) == <<trade.txHash, trade.marketId, trade.outcome, trade.side>>

Min(a, b) == IF a < b THEN a ELSE b

\* the minimum viable size in dollars
MinViableSize == 10

\* variant: no minimum viable size
calculatePositionSizeNoFloor(trade, cfg) ==
    LET scaledSize == (trade.sizeUsd * cfg.positionSizeMultiplier) \div 100
    IN Min(scaledSize, cfg.maxPositionSizeUsd)

calculatePositionSize(trade, cfg) ==
    LET scaledSize == (trade.sizeUsd * cfg.positionSizeMultiplier) \div 100
        finalSize == Min(scaledSize, cfg.maxPositionSizeUsd)
    IN IF finalSize < MinViableSize THEN 0 ELSE finalSize

\* variant: one share per dollar
SharesAtPar(usd, price) == usd * 100

\* shares for a notional at a price, in hundredths of a share
Shares(usd, price) == (usd * 10000) \div price

\* variant: the arbitrage gate comes before the market filter
processVerdictArbBeforeFilter(w, trade) ==
    LET cfg == walletConfig[w]
    IN IF tradeKey(trade) \in copiedTrades[w] THEN "already_copied"
       ELSE IF ~cfg.enabled THEN "wallet_disabled"
       ELSE IF cfg.requireArbSignal /\ ~hasOpportunity(trade.marketId) THEN "no_arb_signal"
       ELSE IF cfg.marketsFilter # NoFilter /\ trade.marketId \notin cfg.marketsFilter
            THEN "market_filtered"
       ELSE IF calculatePositionSize(trade, cfg) <= 0 THEN "size_too_small"
       ELSE IF ~canOpenPosition(trade.marketId, calculatePositionSize(trade, cfg))
            THEN "risk_rejected"
       ELSE "execute"

\* variant: the wallet's enabled flag is not consulted
processVerdictNoEnabledCheck(w, trade) ==
    LET cfg == walletConfig[w]
    IN IF tradeKey(trade) \in copiedTrades[w] THEN "already_copied"
       ELSE IF cfg.marketsFilter # NoFilter /\ trade.marketId \notin cfg.marketsFilter
            THEN "market_filtered"
       ELSE IF cfg.requireArbSignal /\ ~hasOpportunity(trade.marketId) THEN "no_arb_signal"
       ELSE IF calculatePositionSize(trade, cfg) <= 0 THEN "size_too_small"
       ELSE IF ~canOpenPosition(trade.marketId, calculatePositionSize(trade, cfg))
            THEN "risk_rejected"
       ELSE "execute"

\* variant: the risk gate is not consulted
processVerdictNoRiskGate(w, trade) ==
    LET cfg == walletConfig[w]
    IN IF tradeKey(trade) \in copiedTrades[w] THEN "already_copied"
       ELSE IF ~cfg.enabled THEN "wallet_disabled"
       ELSE IF cfg.marketsFilter # NoFilter /\ trade.marketId \notin cfg.marketsFilter
            THEN "market_filtered"
       ELSE IF cfg.requireArbSignal /\ ~hasOpportunity(trade.marketId) THEN "no_arb_signal"
       ELSE IF calculatePositionSize(trade, cfg) <= 0 THEN "size_too_small"
       ELSE "execute"

\* variant: the copied set is not consulted
processVerdictNoCopiedCheck(w, trade) ==
    LET cfg == walletConfig[w]
    IN IF ~cfg.enabled THEN "wallet_disabled"
       ELSE IF cfg.marketsFilter # NoFilter /\ trade.marketId \notin cfg.marketsFilter
            THEN "market_filtered"
       ELSE IF cfg.requireArbSignal /\ ~hasOpportunity(trade.marketId) THEN "no_arb_signal"
       ELSE IF calculatePositionSize(trade, cfg) <= 0 THEN "size_too_small"
       ELSE IF ~canOpenPosition(trade.marketId, calculatePositionSize(trade, cfg))
            THEN "risk_rejected"
       ELSE "execute"

\* the checks of processTrade up to the risk gate: which one ends the call,
\* "execute" when none does
processVerdict(w, trade) ==
    LET cfg == walletConfig[w]
    IN IF tradeKey(trade) \in copiedTrades[w] THEN "already_copied"
       ELSE IF ~cfg.enabled THEN "wallet_disabled"
       ELSE IF cfg.marketsFilter # NoFilter /\ trade.marketId \notin cfg.marketsFilter
            THEN "market_filtered"
       ELSE IF cfg.requireArbSignal /\ ~hasOpportunity(trade.marketId) THEN "no_arb_signal"
       ELSE IF calculatePositionSize(trade, cfg) <= 0 THEN "size_too_small"
       ELSE IF ~canOpenPosition(trade.marketId, calculatePositionSize(trade, cfg))
            THEN "risk_rejected"
       ELSE "execute"

\* variant: any cached internal opportunity sends the execution to the hedged
\* branch
takesArbitrageBranchOnAnyOpportunity(cfg, arbOpp) ==
    arbOpp # NoOpp /\ arbOpp.opportunityType = "internal"

\* the branch of executeCopyTrade: executeArbitrageTrade when the wallet
\* requires the signal and the cache holds an internal opportunity
takesArbitrageBranch(cfg, arbOpp) ==
    cfg.requireArbSignal /\ arbOpp # NoOpp /\ arbOpp.opportunityType = "internal"

NoCall == [trade |-> NoTrade, positionSizeUsd |-> 0, arbOpp |-> NoOpp,
           yesOrder |-> 0, noOrder |-> 0, checkedTotal |-> 0, checkedMarket |-> 0]

NoOutcome == [fill |-> None, result |-> None, orders |-> {}]

Order(m, o, sd, price, shares) ==
    [marketId |-> m, outcome |-> o, side |-> sd, price |-> price, size |-> shares,
     status |-> "pending"]

\* what the venue can answer to POST /order: a result carrying an id, a
\* result without one, no result, or an error
VenueAnswers == {"id", "no_id", "nothing", "throws"}

\* variant: any result counts as an order
placeOrderReturnsOnAnyResult(answer) == answer \in {"id", "no_id"}

\* OrderExecutor.placeOrder returns an order (and tracks it), not null
placeOrderReturns(answer) == answer = "id"

NoExecRet == [op |-> None, answer |-> None, ok |-> FALSE, orderId |-> 0]

\* variant: a leg takes the whole notional
legSizeUsdWhole(positionSizeUsd) == positionSizeUsd

\* the notional of one leg of a hedged pair (positionSizeUsd * 0.5)
legSizeUsd(positionSizeUsd) == positionSizeUsd \div 2

----------------------------------------------------------------------------
(* The running bot: venue, polling loop, replication, scanning *)

Ledger == [positions |-> positions, totalExposure |-> totalExposure]

Range(q) == {q[i] : i \in 1..Len(q)}

\* the wallet opens a position: the venue lists one more record
VenueOpensPosition(w, r) ==
    /\ w \in Monitored
    /\ Len(venuePositions[w]) < MaxVenue
    /\ r \notin Range(venuePositions[w])
    /\ venuePositions' = [venuePositions EXCEPT ![w] = Append(@, r)]
    /\ UNCHANGED <<riskVars, loopVars, clientRet, walletConfig, venueFeed, now, monitorVars, traderVars, activeOrders, activeOpportunities, scannedBooks, execRet>>

\* checkAllWallets: one checkWallet per monitored wallet, started together once
\* every check of the previous cycle has settled; each reads its watermark
CheckAllWallets ==
    /\ \A w \in Wallets : pc[w] = "idle"
    /\ pc' = [w \in Wallets |-> IF w \in Monitored THEN "fetch" ELSE "idle"]
    /\ since' = [w \in Wallets |-> IF w \in Monitored THEN lastTradeTimestamps[w]
                                                       ELSE since[w]]
    /\ lastOutcome' = [w \in Wallets |-> IF w \in Monitored THEN NoOutcome
                                                             ELSE lastOutcome[w]]
    /\ UNCHANGED <<riskVars, loopVars, clientRet, walletConfig, venueFeed, now, venuePositions, lastTradeTimestamps, tradeHistory,
                   lastKnownPositions, listed, batch, call, copiedTrades, copiedFills,
                   activeOrders, activeOpportunities, scannedBooks, execRet>>

\* getWalletTrades answers at time t: listOk = the /positions request answered
\* (a failed request reads as an empty list), fallback = what the other
\* sources give
Fetch(w, t, listOk, fallback) ==
    /\ pc[w] = "fetch"
    /\ now' = t
    /\ LET ps == IF listOk THEN venuePositions[w] ELSE <<>>
       IN /\ batch' = [batch EXCEPT ![w] = getWalletTrades(ps, since[w], t, fallback)]
          /\ listed' = [listed EXCEPT ![w] = ps]
    /\ pc' = [pc EXCEPT ![w] = "loop"]
    /\ UNCHANGED <<riskVars, loopVars, clientRet, walletConfig, venueFeed, venuePositions, lastTradeTimestamps,
                   tradeHistory, lastKnownPositions, since, traderVars, activeOrders,
                   activeOpportunities, scannedBooks, execRet>>

\* the for loop of checkWallet is over: this wallet's check settles
LoopDone(w) ==
    /\ pc[w] = "loop"
    /\ batch[w] = <<>>
    /\ pc' = [pc EXCEPT ![w] = "idle"]
    /\ UNCHANGED <<riskVars, loopVars, clientRet, walletConfig, venueFeed, now, venuePositions, lastTradeTimestamps, tradeHistory,
                   lastKnownPositions, since, listed, batch, traderVars, activeOrders,
                   activeOpportunities, scannedBooks, execRet>>

\* variant: a record that fails ends the wallet's check
afterRecordStopsOnFailure(result) ==
    IF result \in {"invalid", "failed"} THEN "idle" ELSE "loop"

\* where checkWallet stands once a record has been dealt with: parseTrade's
\* null and the try/catch around the callback both leave it in the for loop
afterRecord(result) == "loop"

\* variant: the watermark only moves forward
watermarkAfterMax(watermark, timestamp) ==
    IF watermark > timestamp THEN watermark ELSE timestamp

\* the wallet's entry of lastTradeTimestamps after an emission: set to the
\* emitted event's timestamp
watermarkAfter(watermark, timestamp) == timestamp

\* one iteration of the for loop of checkWallet, with the callback
\* (handleWalletTrade, processTrade, executeCopyTrade) run up to its first
\* request to the venue
Iterate(w) ==
    /\ pc[w] = "loop"
    /\ batch[w] # <<>>
    /\ LET tradeData == Head(batch[w])
           trade == parseTrade(tradeData, w, now)
           positionId == tradeData.positionId
           seen == knownPositionsHas(w, positionId)
           emit == trade # NoTrade /\ ~seen /\ isNewTrade(trade, tradeHistory[w])
           cfg == walletConfig[w]
           positionSizeUsd == calculatePositionSize(trade, cfg)
           arbOpp == getOpportunity(trade.marketId)
           hedged == takesArbitrageBranch(cfg, arbOpp)
       IN /\ batch' = [batch EXCEPT ![w] = Tail(@)]
          /\ lastKnownPositions' =
                IF trade # NoTrade /\ positionId # None
                THEN [lastKnownPositions EXCEPT ![w] = @ \cup {positionId}]
                ELSE lastKnownPositions
          /\ IF emit
             THEN /\ tradeHistory' = [tradeHistory EXCEPT ![w] = Append(@, trade)]
                  /\ lastTradeTimestamps' =
                        [lastTradeTimestamps EXCEPT ![w] = watermarkAfter(@, trade.timestamp)]
             ELSE UNCHANGED <<tradeHistory, lastTradeTimestamps>>
          /\ IF emit /\ processVerdict(w, trade) = "execute"
             THEN /\ call' = [call EXCEPT ![w] =
                        [trade |-> trade, positionSizeUsd |-> positionSizeUsd,
                         arbOpp |-> IF hedged THEN arbOpp ELSE NoOpp,
                         yesOrder |-> 0, noOrder |-> 0,
                         \* what canOpenPosition read when it admitted the call
                         checkedTotal |-> totalExposure,
                         checkedMarket |-> SumSizes(positions[trade.marketId])]]
                  /\ pc' = [pc EXCEPT ![w] = IF hedged THEN "placeYes" ELSE "place"]
                  /\ UNCHANGED lastOutcome
             ELSE LET result == IF trade = NoTrade THEN "invalid"
                                ELSE IF seen THEN "known_position"
                                ELSE IF ~emit THEN "duplicate"
                                ELSE processVerdict(w, trade)
                  IN /\ lastOutcome' = [lastOutcome EXCEPT ![w] =
                           [fill |-> tradeData.fill, result |-> result, orders |-> {}]]
                     /\ pc' = [pc EXCEPT ![w] = afterRecord(result)]
                     /\ UNCHANGED call
    /\ UNCHANGED <<riskVars, loopVars, clientRet, walletConfig, venueFeed, now, venuePositions, since, listed, copiedTrades, copiedFills,
                   activeOrders, activeOpportunities, scannedBooks, execRet>>

\* processTrade returns: result is "copied" (true) or "failed" (false)
Return(w, result, orders) ==
    /\ lastOutcome' = [lastOutcome EXCEPT ![w] =
            [fill |-> call[w].trade.fill, result |-> result, orders |-> orders]]
    /\ call' = [call EXCEPT ![w] = NoCall]
    /\ pc' = [pc EXCEPT ![w] = afterRecord(result)]
    /\ IF result = "copied"
       THEN /\ copiedTrades' = [copiedTrades EXCEPT ![w] = @ \cup {tradeKey(call[w].trade)}]
            /\ copiedFills' = [copiedFills EXCEPT ![w] = Append(@, call[w].trade.fill)]
       ELSE UNCHANGED <<copiedTrades, copiedFills>>

\* the id the venue gives the next order it accepts
NextOrderId == Len(activeOrders) + 1

\* executeCopyTrade, directional: the venue answers the placement
PlaceReturn(w, placed) ==
    /\ pc[w] = "place"
    /\ placed => Len(activeOrders) < MaxOrders
    /\ LET c == call[w]
           shares == Shares(c.positionSizeUsd, c.trade.price)
           led == recordPosition(Ledger, c.trade.marketId, c.positionSizeUsd,
                                 c.trade.outcome, c.trade.side, 0)
       IN IF placed
          THEN /\ activeOrders' = Append(activeOrders,
                      Order(c.trade.marketId, c.trade.outcome, c.trade.side,
                            c.trade.price, shares))
               /\ positions' = led.positions
               /\ totalExposure' = led.totalExposure
               /\ Return(w, "copied", {NextOrderId})
          ELSE /\ UNCHANGED <<activeOrders, positions, totalExposure>>
               /\ Return(w, "failed", {})
    /\ UNCHANGED <<config, dailyPnl, lastResetDate, today, riskRet, loopVars, clientRet, walletConfig,
                   venueFeed, now, venuePositions,
                   lastTradeTimestamps, tradeHistory, lastKnownPositions, since, listed,
                   batch, activeOpportunities, scannedBooks, execRet>>

\* executeArbitrageTrade: the venue answers the YES placement and the NO
\* placement is sent
PlaceYesReturn(w, placed) ==
    /\ pc[w] = "placeYes"
    /\ placed => Len(activeOrders) < MaxOrders
    /\ LET c == call[w]
           yesSizeUsd == legSizeUsd(c.positionSizeUsd)
       IN IF placed
          THEN /\ activeOrders' = Append(activeOrders,
                      Order(c.arbOpp.marketId, "YES", "buy", c.arbOpp.yesPrice,
                            Shares(yesSizeUsd, c.arbOpp.yesPrice)))
               /\ call' = [call EXCEPT ![w].yesOrder = NextOrderId]
          ELSE UNCHANGED <<activeOrders, call>>
    /\ pc' = [pc EXCEPT ![w] = "placeNo"]
    /\ UNCHANGED <<riskVars, loopVars, clientRet, walletConfig, venueFeed, now, venuePositions, lastTradeTimestamps, tradeHistory,
                   lastKnownPositions, since, listed, batch, copiedTrades, lastOutcome,
                   copiedFills, activeOpportunities, scannedBooks, execRet>>

\* variant: one leg is enough
bothPlacedOrEither(yesOrder, noPlaced) == yesOrder # 0 \/ noPlaced

\* `if (yesOrder && noOrder)` of executeArbitrageTrade
bothPlaced(yesOrder, noPlaced) == yesOrder # 0 /\ noPlaced

\* variant: the NO leg is priced from the cache entry of the moment
noLegOppFromCache(c) == getOpportunity(c.arbOpp.marketId)

\* the opportunity the NO leg is priced and sized from: the arbOpp argument
\* of executeArbitrageTrade, the object read before the YES placement
noLegOpp(c) == c.arbOpp

\* executeArbitrageTrade: the venue answers the NO placement; with both legs
\* placed both are recorded, with one the cancel of that leg is sent, with
\* none the action fails
PlaceNoReturn(w, placed) ==
    /\ pc[w] = "placeNo"
    /\ placed => Len(activeOrders) < MaxOrders
    /\ LET c == call[w]
           yesSizeUsd == legSizeUsd(c.positionSizeUsd)
           noSizeUsd == legSizeUsd(c.positionSizeUsd)
           led1 == recordPosition(Ledger, c.arbOpp.marketId, yesSizeUsd, "YES", "buy", 0)
           led2 == recordPosition(led1, c.arbOpp.marketId, noSizeUsd, "NO", "buy", 0)
       IN /\ activeOrders' =
                IF placed
                THEN Append(activeOrders,
                        Order(c.arbOpp.marketId, "NO", "buy", noLegOpp(c).noPrice,
                              Shares(noSizeUsd, noLegOpp(c).noPrice)))
                ELSE activeOrders
          /\ IF bothPlaced(c.yesOrder, placed)
             THEN /\ positions' = led2.positions
                  /\ totalExposure' = led2.totalExposure
                  /\ Return(w, "copied", {c.yesOrder, NextOrderId})
             ELSE IF c.yesOrder # 0 \/ placed
             THEN /\ call' = [call EXCEPT ![w].noOrder = IF placed THEN NextOrderId ELSE 0]
                  /\ pc' = [pc EXCEPT ![w] = "cancel"]
                  /\ UNCHANGED <<positions, totalExposure, lastOutcome, copiedTrades,
                                 copiedFills>>
             ELSE /\ UNCHANGED <<positions, totalExposure>>
                  /\ Return(w, "failed", {})
    /\ UNCHANGED <<config, dailyPnl, lastResetDate, today, riskRet, loopVars, clientRet, walletConfig,
                   venueFeed, now, venuePositions,
                   lastTradeTimestamps, tradeHistory, lastKnownPositions, since, listed,
                   batch, activeOpportunities, scannedBooks, execRet>>

\* variant: the order is marked cancelled whatever the venue answered
cancelOrderAlwaysMarks(orders, orderId, success) ==
    IF orderId \in DOMAIN orders
    THEN [orders EXCEPT ![orderId].status = "cancelled"]
    ELSE orders

\* the status of a tracked order after OrderExecutor.cancelOrder, given the
\* venue's answer to the cancel request
cancelOrder(orders, orderId, success) ==
    IF orderId \in DOMAIN orders /\ success
    THEN [orders EXCEPT ![orderId].status = "cancelled"]
    ELSE orders

\* executeArbitrageTrade: the venue answers the cancel of the one placed leg
CancelReturn(w, success) ==
    /\ pc[w] = "cancel"
    /\ LET c == call[w]
           orderId == IF c.yesOrder # 0 THEN c.yesOrder ELSE c.noOrder
       IN /\ activeOrders' = cancelOrder(activeOrders, orderId, success)
          /\ Return(w, "failed", {orderId})
    /\ UNCHANGED <<riskVars, loopVars, clientRet, walletConfig, venueFeed, now, venuePositions, lastTradeTimestamps, tradeHistory,
                   lastKnownPositions, since, listed, batch, activeOpportunities, scannedBooks, execRet>>

\* scanMarkets over all markets, books[m] being what getOrderBook(m) returned:
\* the opportunities found replace the markets' entries
ScanMarkets(books) ==
    /\ activeOpportunities' = scanMarkets(books).activeOpportunities
    /\ UNCHANGED <<riskVars, loopVars, clientRet, walletConfig, venueFeed, now, venuePositions, monitorVars, traderVars,
                   activeOrders, scannedBooks, execRet>>

\* the loops start() launches, and the state of a bot not yet started
Loops == {"walletMonitor", "arbScan", "statusReport"}

InitLoops ==
    /\ running = FALSE
    /\ monitorRunning = FALSE
    /\ loopPc = [l \in Loops |-> "idle"]
    /\ iterations = [l \in Loops |-> 0]
    /\ atStop = [l \in Loops |-> "idle"]

InitPipeline ==
    /\ now = 0
    /\ venuePositions = [w \in Wallets |-> <<>>]
    /\ lastTradeTimestamps = [w \in Wallets |-> NoTime]
    /\ tradeHistory = [w \in Wallets |-> <<>>]
    /\ lastKnownPositions = [w \in Wallets |-> {}]
    /\ pc = [w \in Wallets |-> "idle"]
    /\ since = [w \in Wallets |-> NoTime]
    /\ listed = [w \in Wallets |-> <<>>]
    /\ batch = [w \in Wallets |-> <<>>]
    /\ call = [w \in Wallets |-> NoCall]
    /\ copiedTrades = [w \in Wallets |-> {}]
    /\ lastOutcome = [w \in Wallets |-> NoOutcome]
    /\ copiedFills = [w \in Wallets |-> <<>>]
    /\ activeOrders = <<>>
    /\ activeOpportunities = [m \in Markets |-> NoOpp]
    /\ scannedBooks = [m \in Markets |-> NoBook]
    /\ execRet = NoExecRet
    /\ InitLoops
    /\ clientRet = NoClientRet

----------------------------------------------------------------------------
(* RiskManager API: the calls a client of the ledger can make *)

\* variant: an admitted size is reserved against the total exposure
CanOpenPositionCallReserving(m, s) ==
    /\ riskRet' = [op |-> "canOpenPosition", ok |-> canOpenPosition(m, s), pnl |-> 0]
    /\ totalExposure' = IF canOpenPosition(m, s) THEN totalExposure + s ELSE totalExposure
    /\ UNCHANGED <<config, positions, dailyPnl, lastResetDate, today>>
    /\ UNCHANGED pipeVars

CanOpenPositionCall(m, s) ==
    /\ riskRet' = [op |-> "canOpenPosition", ok |-> canOpenPosition(m, s), pnl |-> 0]
    /\ UNCHANGED <<config, positions, totalExposure, dailyPnl, lastResetDate, today>>
    /\ UNCHANGED pipeVars

RecordPositionCall(m, p) ==
    /\ OpenCount(positions) < MaxOpen
    /\ LET led == recordPosition([positions |-> positions, totalExposure |-> totalExposure],
                                 m, p.sizeUsd, p.outcome, p.side, p.entryPrice)
       IN /\ positions' = led.positions
          /\ totalExposure' = led.totalExposure
    /\ riskRet' = [op |-> "recordPosition", ok |-> TRUE, pnl |-> 0]
    /\ UNCHANGED <<config, dailyPnl, lastResetDate, today>>
    /\ UNCHANGED pipeVars

ClosePositionCall(m, o, x) ==
    LET r == closePosition([positions |-> positions, totalExposure |-> totalExposure,
                            dailyPnl |-> dailyPnl], m, o, x)
    IN /\ r.led.dailyPnl >= -MaxPnl /\ r.led.dailyPnl <= MaxPnl
       /\ positions' = r.led.positions
       /\ totalExposure' = r.led.totalExposure
       /\ dailyPnl' = r.led.dailyPnl
       /\ riskRet' = [op |-> "closePosition", ok |-> r.closed, pnl |-> r.pnl]
       /\ UNCHANGED <<config, lastResetDate, today>>
       /\ UNCHANGED pipeVars

\* variant: the status report also closes a position at 75 cents
GetExposureCallClosing ==
    /\ \E m \in Markets, o \in Outcomes :
          LET r == closePosition([positions |-> positions, totalExposure |-> totalExposure,
                                  dailyPnl |-> pnlAfterReset], m, o, 75)
          IN /\ positions' = r.led.positions
             /\ totalExposure' = r.led.totalExposure
             /\ dailyPnl' = r.led.dailyPnl
    /\ lastResetDate' = resetDateAfterReset
    /\ riskRet' = [op |-> "getExposure", ok |-> TRUE, pnl |-> 0]
    /\ UNCHANGED <<config, today>>
    /\ UNCHANGED pipeVars

GetExposureCall ==
    /\ dailyPnl' = pnlAfterReset
    /\ lastResetDate' = resetDateAfterReset
    /\ riskRet' = [op |-> "getExposure", ok |-> TRUE, pnl |-> 0]
    /\ UNCHANGED <<config, positions, totalExposure, today>>
    /\ UNCHANGED pipeVars

\* midnight passes
NewDay ==
    /\ today < MaxDay
    /\ today' = today + 1
    /\ UNCHANGED <<config, positions, totalExposure, dailyPnl, lastResetDate, riskRet>>
    /\ UNCHANGED pipeVars

InitRiskManager ==
    /\ positions = [m \in Markets |-> <<>>]
    /\ totalExposure = 0
    /\ dailyPnl = 0
    /\ today = 0
    /\ lastResetDate = 0
    /\ riskRet = [op |-> None, ok |-> TRUE, pnl |-> 0]

InitRisk ==
    /\ config \in RiskConfigs
    /\ InitRiskManager
    /\ walletConfig = [w \in Wallets |-> DisabledWalletConfig]
    /\ venueFeed = PositionFeed
    /\ InitPipeline

NextRisk ==
    \/ \E m \in Markets, s \in SizesUsd : CanOpenPositionCall(m, s)
    \/ \E m \in Markets, p \in PositionInputs : RecordPositionCall(m, p)
    \/ \E m \in Markets, o \in Outcomes, x \in ExitPrices : ClosePositionCall(m, o, x)
    \/ GetExposureCall
    \/ NewDay

SpecRisk == InitRisk /\ [][NextRisk]_vars

\* shouldHedge and the calls that change what it reads, with auto-hedge on
\* and off and with sizes on both sides of the 20% imbalance
NoHedgeRiskConfig ==
    [maxTotalExposureUsd |-> 10000, maxPositionPerMarketUsd |-> 2000,
     maxDailyLossUsd |-> 500, enableAutoHedge |-> FALSE]

HedgeInputs ==
    { [outcome |-> "YES", side |-> "buy",  sizeUsd |-> 750,  entryPrice |-> 50],
      [outcome |-> "NO",  side |-> "buy",  sizeUsd |-> 500,  entryPrice |-> 50],
      [outcome |-> "NO",  side |-> "buy",  sizeUsd |-> 1000, entryPrice |-> 0],
      [outcome |-> "YES", side |-> "sell", sizeUsd |-> 500,  entryPrice |-> 50],
      [outcome |-> "YES", side |-> "buy",  sizeUsd |-> 0,    entryPrice |-> 50] }

ShouldHedgeCall(m) ==
    /\ riskRet' = [op |-> "shouldHedge", ok |-> shouldHedge(m), pnl |-> 0, marketId |-> m]
    /\ UNCHANGED <<config, positions, totalExposure, dailyPnl, lastResetDate, today>>
    /\ UNCHANGED pipeVars

InitHedge ==
    /\ config \in {DefaultRiskConfig, NoHedgeRiskConfig}
    /\ InitRiskManager
    /\ walletConfig = [w \in Wallets |-> DisabledWalletConfig]
    /\ venueFeed = PositionFeed
    /\ InitPipeline

NextHedge ==
    \/ \E m \in Markets, p \in HedgeInputs : RecordPositionCall(m, p)
    \/ \E m \in Markets, o \in Outcomes : ClosePositionCall(m, o, 0)
    \/ \E m \in Markets : ShouldHedgeCall(m)

SpecHedge == InitHedge /\ [][NextHedge]_vars

----------------------------------------------------------------------------
(* ArbitrageDetector API: the call a client of the detector can make *)

ScanMarketsCall(books) ==
    /\ activeOpportunities' = scanMarkets(books).activeOpportunities
    /\ scannedBooks' = books
    /\ UNCHANGED <<riskVars, loopVars, clientRet, walletConfig, venueFeed, now, venuePositions, monitorVars,
                   traderVars, activeOrders, execRet>>

InitArb ==
    /\ config = DefaultRiskConfig
    /\ InitRiskManager
    /\ walletConfig = [w \in Wallets |-> DisabledWalletConfig]
    /\ venueFeed = PositionFeed
    /\ InitPipeline

NextArb == \E books \in [Markets -> ScanBooks] : ScanMarketsCall(books)

SpecArb == InitArb /\ [][NextArb]_vars

----------------------------------------------------------------------------
(* OrderExecutor API: the calls a client of the executor can make *)

\* placeOrder, the venue giving `answer`
PlaceOrderCall(m, o, sd, price, shares, answer) ==
    /\ placeOrderReturns(answer) => Len(activeOrders) < MaxOrders
    /\ activeOrders' = IF placeOrderReturns(answer)
                       THEN Append(activeOrders, Order(m, o, sd, price, shares))
                       ELSE activeOrders
    /\ execRet' = [op |-> "placeOrder", answer |-> answer,
                   ok |-> placeOrderReturns(answer),
                   orderId |-> IF placeOrderReturns(answer) THEN NextOrderId ELSE 0]
    /\ UNCHANGED <<riskVars, loopVars, clientRet, walletConfig, venueFeed, now, venuePositions, monitorVars,
                   traderVars, activeOpportunities, scannedBooks>>

\* cancelOrder, the venue's DELETE /order succeeding or not
CancelOrderCall(orderId, success) ==
    /\ activeOrders' = cancelOrder(activeOrders, orderId, success)
    /\ execRet' = [op |-> "cancelOrder",
                   answer |-> IF orderId \notin DOMAIN activeOrders THEN "not_called"
                              ELSE IF success THEN "ok" ELSE "throws",
                   ok |-> orderId \in DOMAIN activeOrders /\ success,
                   orderId |-> orderId]
    /\ UNCHANGED <<riskVars, loopVars, clientRet, walletConfig, venueFeed, now, venuePositions, monitorVars,
                   traderVars, activeOpportunities, scannedBooks>>

InitExec == InitArb

NextExec ==
    \/ \E m \in Markets, o \in Outcomes, sd \in Sides, answer \in VenueAnswers :
          PlaceOrderCall(m, o, sd, 50, 1000, answer)
    \/ \E orderId \in 1..(MaxOrders + 1), success \in BOOLEAN :
          CancelOrderCall(orderId, success)

SpecExec == InitExec /\ [][NextExec]_vars

----------------------------------------------------------------------------
(* PolymarketArbCopyBot.start() and stop(): the three loops and their flags.
   Each action is one turn of the event loop: a pending await resolves and
   the loop runs up to its next await. *)

nonLoopVars == <<config, positions, totalExposure, riskRet, today, clientRet, walletConfig, venueFeed, now,
                 venuePositions, monitorVars, traderVars, activeOrders, activeOpportunities,
                 scannedBooks, execRet>>

Started == loopPc["statusReport"] # "idle"
Stopped == atStop["statusReport"] # "idle"

\* start(): initialize, set running, and run each loop up to its first await
StartCall ==
    /\ ~Started
    /\ running' = TRUE
    /\ monitorRunning' = TRUE
    /\ loopPc' = [l \in Loops |-> CASE l = "walletMonitor" -> "checkAllWallets"
                                    [] l = "arbScan" -> "getMarkets"
                                    [] OTHER -> "sleep"]
    /\ iterations' = [l \in Loops |-> 1]
    /\ UNCHANGED <<atStop, dailyPnl, lastResetDate, nonLoopVars>>

\* variant: the monitor's flag is left as it is
stopMonitoringNoop(flag) == flag

\* WalletMonitor.running after stopMonitoring()
stopMonitoring(flag) == FALSE

\* stop(): both flags are cleared in one turn; nothing else is touched (the
\* WebSocket it closes is never opened by the bot)
StopCall ==
    /\ Started
    /\ running' = FALSE
    /\ monitorRunning' = stopMonitoring(monitorRunning)
    /\ atStop' = IF Stopped THEN atStop ELSE loopPc
    /\ UNCHANGED <<loopPc, iterations, dailyPnl, lastResetDate, nonLoopVars>>

\* the `while (this.running)` test a loop makes once its sleep is over: the
\* next iteration begins at its first await, or the loop exits
whileRunning(l, flag, first) ==
    /\ flag => iterations[l] < MaxIter
    /\ loopPc' = [loopPc EXCEPT ![l] = IF flag THEN first ELSE "done"]
    /\ iterations' = [iterations EXCEPT ![l] = IF flag THEN @ + 1 ELSE @]

\* startMonitoring: checkAllWallets returns or throws, the loop sleeps
CheckAllWalletsReturn ==
    /\ loopPc["walletMonitor"] = "checkAllWallets"
    /\ loopPc' = [loopPc EXCEPT !["walletMonitor"] = "sleep"]
    /\ UNCHANGED <<running, monitorRunning, iterations, atStop, dailyPnl, lastResetDate,
                   nonLoopVars>>

MonitorSleepReturn ==
    /\ loopPc["walletMonitor"] = "sleep"
    /\ whileRunning("walletMonitor", monitorRunning, "checkAllWallets")
    /\ UNCHANGED <<running, monitorRunning, atStop, dailyPnl, lastResetDate, nonLoopVars>>

\* arbitrageScanLoop: getMarkets returns markets that pass the filter
\* ("markets"), none that do ("none"), or throws
GetMarketsReturn(result) ==
    /\ loopPc["arbScan"] = "getMarkets"
    /\ loopPc' = [loopPc EXCEPT !["arbScan"] =
                     IF result = "markets" THEN "scanMarkets" ELSE "sleep"]
    /\ UNCHANGED <<running, monitorRunning, iterations, atStop, dailyPnl, lastResetDate,
                   nonLoopVars>>

ScanMarketsReturn ==
    /\ loopPc["arbScan"] = "scanMarkets"
    /\ loopPc' = [loopPc EXCEPT !["arbScan"] = "sleep"]
    /\ UNCHANGED <<running, monitorRunning, iterations, atStop, dailyPnl, lastResetDate,
                   nonLoopVars>>

ArbSleepReturn ==
    /\ loopPc["arbScan"] = "sleep"
    /\ whileRunning("arbScan", running, "getMarkets")
    /\ UNCHANGED <<running, monitorRunning, atStop, dailyPnl, lastResetDate, nonLoopVars>>

\* statusReportLoop: the sleep comes first, then the report (getExposure with
\* its lazy reset), then the test
StatusSleepReturn ==
    /\ loopPc["statusReport"] = "sleep"
    /\ dailyPnl' = pnlAfterReset
    /\ lastResetDate' = resetDateAfterReset
    /\ whileRunning("statusReport", running, "sleep")
    /\ UNCHANGED <<running, monitorRunning, atStop, nonLoopVars>>

MonitorStep == CheckAllWalletsReturn \/ MonitorSleepReturn
ArbStep == (\E result \in {"markets", "none", "throws"} : GetMarketsReturn(result))
              \/ ScanMarketsReturn \/ ArbSleepReturn

InitLoopsBot == InitArb

NextLoops ==
    \/ StartCall
    \/ StopCall
    \/ CheckAllWalletsReturn
    \/ MonitorSleepReturn
    \/ \E result \in {"markets", "none", "throws"} : GetMarketsReturn(result)
    \/ ScanMarketsReturn
    \/ ArbSleepReturn
    \/ StatusSleepReturn

\* every network call ends (each has a timeout) and every sleep ends, so a
\* loop suspended in an await is eventually resumed
SpecLoops ==
    /\ InitLoopsBot /\ [][NextLoops]_vars
    /\ WF_vars(MonitorStep) /\ WF_vars(ArbStep) /\ WF_vars(StatusSleepReturn)

----------------------------------------------------------------------------
(* PolymarketClient API: getWalletTrades called with a watermark, against
   what each of the four sources has *)

\* position lists of the Data API: empty, old and new records
ClientPositionLists ==
    { <<>>,
      << PositionRecord("o1", "p1", "m1", "YES", 100000, 1, None) >>,
      << PositionRecord("o1", "p1", "m1", "YES", 100000, 1, None),
         PositionRecord("o2", "p2", "m2", "NO", 100000, 2, None) >>,
      << PositionRecord("n1", "p3", "m1", "NO", 100000, 4, "0xa") >>,
      << PositionRecord("u1", None, "m2", "YES", 100000, NoTime, None) >> }

ClientSince == {NoTime, 2, 4}

\* a trade as the fallback sources give it, already in trade format
SourceTrade(f, tx) ==
    [fill |-> f, marketId |-> "m1", outcome |-> "YES", side |-> "sell", price |-> 50,
     size |-> 100000, timestamp |-> 5, txHash |-> tx, positionId |-> None]

GetWalletTradesCall(ps, sinceT, chain, activity, trades) ==
    /\ clientRet' =
          [op |-> "getWalletTrades", positions |-> ps, since |-> sinceT, chain |-> chain,
           activity |-> activity, trades |-> trades,
           result |-> getWalletTrades(ps, sinceT, now,
                                      fallbackTrades(chain, activity, trades))]
    /\ UNCHANGED <<riskVars, loopVars, walletConfig, venueFeed, now, venuePositions,
                   monitorVars, traderVars, activeOrders, activeOpportunities, scannedBooks,
                   execRet>>

InitClient == InitArb

NextClient ==
    \E ps \in ClientPositionLists, sinceT \in ClientSince,
       chain \in {<<>>, <<SourceTrade("c1", "0xc")>>},
       activity \in {<<>>, <<SourceTrade("a1", "0xd")>>},
       trades \in {<<>>, <<SourceTrade("t1", "0xe")>>} :
          GetWalletTradesCall(ps, sinceT, chain, activity, trades)

SpecClient == InitClient /\ [][NextClient]_vars

----------------------------------------------------------------------------
(* CopyTrader API: processTrade called with a trade, for wallets of every
   kind of configuration *)

\* a WalletTrade as parseTrade builds it, bought at 0.50
WalletTrade(w, f, m, o, sizeUsd, tx) ==
    [fill |-> f, walletAddress |-> w, marketId |-> m, outcome |-> o, side |-> "buy",
     price |-> 50, size |-> sizeUsd * 2, sizeUsd |-> sizeUsd, timestamp |-> 1, txHash |-> tx]

\* the trades handed to wallet w's CopyTrader: two that mirror to 1500, one in
\* each market, and one that mirrors to 5
TraderTrades(w) ==
    { WalletTrade(w, "a", "m1", "YES", 150000, "0xa"),
      WalletTrade(w, "b", "m2", "NO", 150000, "0xb"),
      WalletTrade(w, "c", "m2", "YES", 500, "0xc") }

TraderWallets ==
    { [w \in Wallets |-> IF w = "w1" THEN FilteredArbWalletConfig ELSE DisabledWalletConfig],
      [w \in Wallets |-> DirectionalWalletConfig] }

\* processTrade run up to its first request to the venue, or to its return
\* when a check ends it
ProcessTradeCall(w, trade) ==
    /\ pc[w] = "idle"
    /\ LET cfg == walletConfig[w]
           arbOpp == getOpportunity(trade.marketId)
           hedged == takesArbitrageBranch(cfg, arbOpp)
           verdict == processVerdict(w, trade)
       IN IF verdict = "execute"
          THEN /\ call' = [call EXCEPT ![w] =
                     [trade |-> trade,
                      positionSizeUsd |-> calculatePositionSize(trade, cfg),
                      arbOpp |-> IF hedged THEN arbOpp ELSE NoOpp,
                      yesOrder |-> 0, noOrder |-> 0,
                      checkedTotal |-> totalExposure,
                      checkedMarket |-> SumSizes(positions[trade.marketId])]]
               /\ pc' = [pc EXCEPT ![w] = IF hedged THEN "placeYes" ELSE "place"]
               /\ UNCHANGED lastOutcome
          ELSE /\ lastOutcome' = [lastOutcome EXCEPT ![w] =
                     [fill |-> trade.fill, result |-> verdict, orders |-> {}]]
               /\ pc' = [pc EXCEPT ![w] = afterRecord(verdict)]
               /\ UNCHANGED call
    /\ UNCHANGED <<riskVars, loopVars, clientRet, walletConfig, venueFeed, now, venuePositions,
                   lastTradeTimestamps, tradeHistory, lastKnownPositions, since, listed, batch,
                   copiedTrades, copiedFills, activeOrders, activeOpportunities, scannedBooks,
                   execRet>>

InitTrader ==
    /\ config = DefaultRiskConfig
    /\ InitRiskManager
    /\ walletConfig \in TraderWallets
    /\ venueFeed = PositionFeed
    /\ InitPipeline

NextTrader ==
    \/ \E w \in Wallets : \E trade \in TraderTrades(w) : ProcessTradeCall(w, trade)
    \/ \E w \in Wallets : LoopDone(w)
    \/ \E w \in Wallets, answer \in VenueAnswers : PlaceReturn(w, placeOrderReturns(answer))
    \/ \E w \in Wallets, answer \in VenueAnswers : PlaceYesReturn(w, placeOrderReturns(answer))
    \/ \E w \in Wallets, answer \in VenueAnswers : PlaceNoReturn(w, placeOrderReturns(answer))
    \/ \E w \in Wallets, success \in BOOLEAN : CancelReturn(w, success)
    \/ \E books \in [Markets -> Books] : ScanMarkets(books)

SpecTrader == InitTrader /\ [][NextTrader]_vars

\* the books the scans return while a hedged action is under way: those of
\* Books and one more with an opportunity at another NO price
HedgedBooks ==
    Books \cup { [YES |-> <<Ask(48, 3000)>>, NO |-> <<Ask(48, 3000)>>] }

\* processTrade for a wallet that requires the arb signal, next to a disabled
\* one, with the scan loop running meanwhile
InitHedged ==
    /\ config = DefaultRiskConfig
    /\ InitRiskManager
    /\ walletConfig = [w \in Wallets |-> IF w = "w1" THEN FilteredArbWalletConfig
                                         ELSE DisabledWalletConfig]
    /\ venueFeed = PositionFeed
    /\ InitPipeline

NextHedged ==
    \/ \E w \in Wallets : \E trade \in TraderTrades(w) : ProcessTradeCall(w, trade)
    \/ \E w \in Wallets : LoopDone(w)
    \/ \E w \in Wallets, answer \in VenueAnswers : PlaceYesReturn(w, placeOrderReturns(answer))
    \/ \E w \in Wallets, answer \in VenueAnswers : PlaceNoReturn(w, placeOrderReturns(answer))
    \/ \E w \in Wallets, success \in BOOLEAN : CancelReturn(w, success)
    \/ \E books \in [Markets -> HedgedBooks] : ScanMarkets(books)

SpecHedged == InitHedged /\ [][NextHedged]_vars

\* the same calls made strictly one at a time: a processTrade begins only
\* when no other is under way, for any wallet
SerialProcessTradeCall(w, trade) ==
    /\ \A v \in Wallets : pc[v] = "idle" /\ call[v] = NoCall
    /\ ProcessTradeCall(w, trade)

InitSerial ==
    /\ config \in RiskConfigs
    /\ InitRiskManager
    /\ walletConfig \in TraderWallets
    /\ venueFeed = PositionFeed
    /\ InitPipeline

NextSerial ==
    \/ \E w \in Wallets : \E trade \in TraderTrades(w) : SerialProcessTradeCall(w, trade)
    \/ \E w \in Wallets : LoopDone(w)
    \/ \E w \in Wallets, answer \in VenueAnswers : PlaceReturn(w, placeOrderReturns(answer))
    \/ \E w \in Wallets, answer \in VenueAnswers : PlaceYesReturn(w, placeOrderReturns(answer))
    \/ \E w \in Wallets, answer \in VenueAnswers : PlaceNoReturn(w, placeOrderReturns(answer))
    \/ \E w \in Wallets, success \in BOOLEAN : CancelReturn(w, success)
    \/ \E books \in [Markets -> Books] : ScanMarkets(books)

SpecSerial == InitSerial /\ [][NextSerial]_vars

\* trades handed to the engines of a wallet that requires the arb signal (w1)
\* and of one mirrored directionally: a sell for both, and for the second two
\* buys in the same market without a transaction id, far apart in time; each
\* mirrors to 500. The scans meanwhile find market m1's book only.
EngineTrades(w) ==
    { [WalletTrade(w, "g", "m1", "YES", 50000, "0xf") EXCEPT !.side = "sell"] }
    \cup
    IF w = "w1" THEN {}
    ELSE { [WalletTrade(w, "d", "m1", "YES", 50000, None) EXCEPT !.timestamp = 1],
           [WalletTrade(w, "e", "m1", "YES", 50000, None) EXCEPT !.timestamp = 1000] }

InitEngine ==
    /\ config = DefaultRiskConfig
    /\ InitRiskManager
    /\ walletConfig = [w \in Wallets |-> IF w = "w1" THEN ArbWalletConfig
                                         ELSE DirectionalWalletConfig]
    /\ venueFeed = PositionFeed
    /\ InitPipeline

NextEngine ==
    \/ \E w \in Wallets : \E trade \in EngineTrades(w) : ProcessTradeCall(w, trade)
    \/ \E w \in Wallets : LoopDone(w)
    \/ \E w \in Wallets, answer \in VenueAnswers : PlaceReturn(w, placeOrderReturns(answer))
    \/ \E w \in Wallets, answer \in VenueAnswers : PlaceYesReturn(w, placeOrderReturns(answer))
    \/ \E w \in Wallets, answer \in VenueAnswers : PlaceNoReturn(w, placeOrderReturns(answer))
    \/ \E w \in Wallets, success \in BOOLEAN : CancelReturn(w, success)
    \/ \E book \in Books :
          ScanMarkets([m \in Markets |-> IF m = "m1" THEN book ELSE NoBook])

SpecEngine == InitEngine /\ [][NextEngine]_vars

\* the same engines with closePosition called on the shared RiskManager at
\* any moment
NextMirror ==
    \/ NextEngine
    \/ \E m \in Markets, o \in Outcomes, x \in ExitPrices : ClosePositionCall(m, o, x)

SpecMirror == InitEngine /\ [][NextMirror]_vars

----------------------------------------------------------------------------
(* The running bot *)

\* the configurations of the running bot: one wallet monitored, with or
\* without the arbitrage-signal requirement
BotWallets ==
    { [w \in Wallets |-> IF w = "w1" THEN ArbWalletConfig ELSE DisabledWalletConfig],
      [w \in Wallets |-> IF w = "w1" THEN DirectionalWalletConfig ELSE DisabledWalletConfig] }

\* both wallets monitored and mirrored directionally
TwoWallets == [w \in Wallets |-> DirectionalWalletConfig]

\* the runs explored: one monitored wallet against each feed, and two
\* monitored wallets against the two-wallet feed and the same-market feed
Scenarios ==
    {[wallets |-> wc, feed |-> f] : wc \in BotWallets, f \in VenueFeeds}
        \cup {[wallets |-> TwoWallets, feed |-> TwoWalletFeed],
              [wallets |-> TwoWallets, feed |-> SameMarketFeed]}

Init ==
    /\ config = DefaultRiskConfig
    /\ InitRiskManager
    /\ \E sc \in Scenarios : walletConfig = sc.wallets /\ venueFeed = sc.feed
    /\ InitPipeline

Next ==
    \/ \E w \in Wallets : \E r \in venueFeed.positions[w] : VenueOpensPosition(w, r)
    \/ CheckAllWallets
    \/ \E w \in Wallets, t \in ClockReadings, listOk \in BOOLEAN :
          \E fallback \in venueFeed.fallback : t >= now /\ Fetch(w, t, listOk, fallback)
    \/ \E w \in Wallets : LoopDone(w)
    \/ \E w \in Wallets : Iterate(w)
    \/ \E w \in Wallets, answer \in VenueAnswers : PlaceReturn(w, placeOrderReturns(answer))
    \/ \E w \in Wallets, answer \in VenueAnswers : PlaceYesReturn(w, placeOrderReturns(answer))
    \/ \E w \in Wallets, answer \in VenueAnswers : PlaceNoReturn(w, placeOrderReturns(answer))
    \/ \E w \in Wallets, success \in BOOLEAN : CancelReturn(w, success)
    \/ \E books \in [Markets -> Books] : ScanMarkets(books)

Spec == Init /\ [][Next]_vars

\* the bot with its status loop, which calls getExposure, over several days:
\* two monitored wallets in the same market, one copied as hedged pairs and
\* one directionally
ComposedScenarios ==
    { [wallets |-> [w \in Wallets |-> IF w = "w1" THEN ArbWalletConfig
                                      ELSE DirectionalWalletConfig],
       feed |-> SameMarketFeed] }

InitComposed ==
    /\ config = DefaultRiskConfig
    /\ InitRiskManager
    /\ \E sc \in ComposedScenarios : walletConfig = sc.wallets /\ venueFeed = sc.feed
    /\ InitPipeline

NextComposed ==
    \/ Next
    \/ GetExposureCall
    \/ NewDay

SpecComposed == InitComposed /\ [][NextComposed]_vars

----------------------------------------------------------------------------
(* Properties of the RiskManager, checked under SpecRisk *)

\* every open position of the ledger, market by market
AllOpenPositions ==
    {x \in Markets \X (1..OpenCount(positions)) : x[2] <= Len(positions[x[1]])}

RECURSIVE SumOpen(_)
SumOpen(S) ==
    IF S = {} THEN 0
    ELSE LET x == CHOOSE y \in S : TRUE
         IN positions[x[1]][x[2]].sizeUsd + SumOpen(S \ {x})

MarketOpen(m) == {x \in AllOpenPositions : x[1] = m}

DailyLossBreached == dailyPnl <= -config.maxDailyLossUsd

\* C1: after any sequence of recordPosition and closePosition calls the total
\* exposure getExposure reports equals the sum of sizeUsd over all open
\* positions, and each market's reported exposure equals the sum over that
\* market's open positions.
C1_ExposureEqualsOpenPositions ==
    /\ getExposure.totalExposureUsd = SumOpen(AllOpenPositions)
    /\ \A m \in Markets : getExposure.marketExposures[m] = SumOpen(MarketOpen(m))

\* a position was closed while others stay open
C1_Witness ==
    /\ riskRet.op = "closePosition" /\ riskRet.ok
    /\ totalExposure > 0
    /\ OpenCount(positions) >= 1

\* C4: canOpenPosition returns false in every state where
\* dailyPnl <= -maxDailyLossUsd, for every market and every size, 0 included.
C4_DailyLossRejectsEverySize ==
    DailyLossBreached =>
        /\ \A m \in Markets, s \in SizesUsd : ~canOpenPosition(m, s)
        /\ riskRet.op = "canOpenPosition" => ~riskRet.ok

\* the ceiling is breached, the ledger is empty (so no exposure check could
\* reject) and a canOpenPosition call has returned false
C4_Witness ==
    /\ DailyLossBreached
    /\ totalExposure = 0
    /\ riskRet.op = "canOpenPosition" /\ ~riskRet.ok

\* C5 (as claimed): once the daily loss ceiling has been breached it stays
\* breached, so canOpenPosition keeps returning false, for the rest of that
\* calendar day whatever closePosition calls happen.
C5_BreachLatchedOverClose ==
    [][(DailyLossBreached /\ today' = today /\ riskRet'.op = "closePosition")
          => DailyLossBreached']_vars

\* C6: canOpenPosition returns true exactly when dailyPnl > -maxDailyLossUsd,
\* totalExposure + size <= maxTotalExposureUsd and the market's exposure +
\* size <= maxPositionPerMarketUsd, the first failing check (in this order)
\* being the one that rejects.
C6_CanOpenIffThreeChecks ==
    \A m \in Markets, s \in SizesUsd :
          LET lossOk == dailyPnl > -config.maxDailyLossUsd
              totalOk == SumOpen(AllOpenPositions) + s <= config.maxTotalExposureUsd
              marketOk == SumOpen(MarketOpen(m)) + s <= config.maxPositionPerMarketUsd
              v == canOpenVerdict(m, s)
          IN /\ canOpenPosition(m, s) <=> (lossOk /\ totalOk /\ marketOk)
             /\ v = "daily_loss" <=> ~lossOk
             /\ v = "total_exposure" <=> (lossOk /\ ~totalOk)
             /\ v = "market_exposure" <=> (lossOk /\ totalOk /\ ~marketOk)

\* one state in which a call is admitted, one is rejected by the total
\* ceiling alone and one by the market ceiling alone
C6_Witness ==
    /\ riskRet.op = "canOpenPosition"
    /\ \E m \in Markets, s \in SizesUsd : canOpenVerdict(m, s) = "ok" /\ s > 0
    /\ \E m \in Markets, s \in SizesUsd :
          /\ canOpenVerdict(m, s) = "total_exposure"
          /\ SumSizes(positions[m]) + s <= config.maxPositionPerMarketUsd
    /\ \E m \in Markets, s \in SizesUsd : canOpenVerdict(m, s) = "market_exposure"

----------------------------------------------------------------------------
(* Properties of the watcher, the engine and the executor, checked under Spec *)

FillsOf(q) == {q[i].fill : i \in 1..Len(q)}

\* the position id of the venue record a fill stands for, None when the record
\* has none or the fill came from a fallback source
PositionIdOf(w, f) ==
    IF \E r \in venueFeed.positions[w] : r.fill = f
    THEN (CHOOSE r \in venueFeed.positions[w] : r.fill = f).id
    ELSE None

\* the trade checkWallet would see for a listed record with no watermark
TradeOfRecord(w, r) == parseTrade(transformPositionsToTrades(<<r>>, NoTime, 0)[1], w, 0)

\* wallet w's hedged execution returns in this step without both legs placed
HedgedFailure(w) ==
    /\ pc[w] \in {"placeNo", "cancel"}
    /\ pc'[w] = "loop"
    /\ ~(call[w].yesOrder # 0 /\ Len(activeOrders') > Len(activeOrders))

\* C2 (as claimed): when exactly one leg of a hedged pair was placed, after
\* executeArbitrageTrade has returned no order of that action is left in
\* status pending at the OrderExecutor.
C2_NoPendingLegAfterFailure ==
    \A w \in Wallets :
        lastOutcome[w].result = "failed" =>
            \A id \in lastOutcome[w].orders : activeOrders[id].status # "pending"

\* C3: when exactly one leg or neither leg of a hedged pair is placed,
\* processTrade returns false, the RiskManager records nothing (position
\* lists and total exposure unchanged) and the event's key is not added to
\* the copied set.
C3_FailedHedgeRecordsNothing ==
    [][\A w \in Wallets :
          HedgedFailure(w) =>
              /\ lastOutcome'[w].result = "failed"
              /\ lastOutcome'[w].fill = call[w].trade.fill
              /\ positions' = positions
              /\ totalExposure' = totalExposure
              /\ copiedTrades'[w] = copiedTrades[w]
              /\ copiedFills'[w] = copiedFills[w]]_vars

\* a hedged execution has returned with one leg placed and cancelled, the
\* ledger and the copied set still empty
C3_Witness ==
    \E w \in Wallets :
        /\ lastOutcome[w].result = "failed"
        /\ Cardinality(lastOutcome[w].orders) = 1
        /\ \A id \in lastOutcome[w].orders : activeOrders[id].status = "cancelled"
        /\ totalExposure = 0
        /\ copiedTrades[w] = {}

\* C7: a position that stays in the venue's position list over successive
\* polls, with or without id, transaction id or timestamp, is copied
\* successfully at most once.
C7_AtMostOneCopyPerFill ==
    \A w \in Wallets :
        \A i, j \in 1..Len(copiedFills[w]) :
            i # j => copiedFills[w][i] # copiedFills[w][j]

\* a record without id, transaction id and timestamp was copied, was emitted
\* again by a later poll and the engine refused the second copy
C7_Witness ==
    \E w \in Wallets :
        /\ lastOutcome[w] = [fill |-> "f1", result |-> "already_copied", orders |-> {}]
        /\ "f1" \in Range(copiedFills[w])
        /\ \E i, j \in 1..Len(tradeHistory[w]) :
              i < j /\ tradeHistory[w][i].fill = "f1" /\ tradeHistory[w][j].fill = "f1"

\* C8: for every wallet the callback is invoked at most once for records
\* carrying a given position id; a later record with an id already seen is
\* skipped.
C8_OneEmissionPerPositionId ==
    \A w \in Wallets :
        /\ \A i, j \in 1..Len(tradeHistory[w]) :
              (i # j /\ PositionIdOf(w, tradeHistory[w][i].fill) # None) =>
                  PositionIdOf(w, tradeHistory[w][i].fill)
                      # PositionIdOf(w, tradeHistory[w][j].fill)
        /\ lastOutcome[w].result = "known_position" =>
              PositionIdOf(w, lastOutcome[w].fill) \in lastKnownPositions[w]

\* a record was emitted and a later, different record with the same id was
\* skipped
C8_Witness ==
    \E w \in Wallets :
        /\ lastOutcome[w].result = "known_position"
        /\ lastOutcome[w].fill \notin FillsOf(tradeHistory[w])
        /\ \E i \in 1..Len(tradeHistory[w]) :
              PositionIdOf(w, tradeHistory[w][i].fill) = PositionIdOf(w, lastOutcome[w].fill)

\* C9: of two records of one wallet that share market, outcome and side, carry
\* no transaction id and have timestamps less than 5 seconds apart, the second
\* is not emitted once the first has been.
C9_NoTwoEmissionsWithinWindow ==
    \A w \in Wallets :
        \A i, j \in 1..Len(tradeHistory[w]) :
            LET a == tradeHistory[w][i]
                b == tradeHistory[w][j]
            IN i < j =>
                  ~(/\ a.marketId = b.marketId /\ a.outcome = b.outcome /\ a.side = b.side
                    /\ a.txHash = None /\ b.txHash = None
                    /\ Abs(a.timestamp - b.timestamp) < DedupWindow)

\* a record without transaction id was dropped as the duplicate of another
\* record emitted less than 5 seconds before it
C9_Witness ==
    \E w \in Wallets :
        /\ lastOutcome[w].result = "duplicate"
        /\ lastOutcome[w].fill \notin FillsOf(tradeHistory[w])
        /\ \E r \in venueFeed.positions[w] :
              /\ r.fill = lastOutcome[w].fill /\ r.txHash = None /\ r.id = None
              /\ \E i \in 1..Len(tradeHistory[w]) :
                    LET a == tradeHistory[w][i]
                    IN /\ a.marketId = r.marketId /\ a.outcome = r.outcome /\ a.side = "buy"
                       /\ a.txHash = None
                       /\ Abs(a.timestamp - now) < DedupWindow

\* C10 (as claimed): a trade not yet seen whose timestamp is earlier than the
\* watermark and that first shows in the venue's data on a later poll is
\* still handed to the duplicate checks, and so emitted, on that poll.
C10_LateTradeStillDelivered ==
    [][\A w \in Wallets :
          (pc[w] = "fetch" /\ pc'[w] = "loop") =>
              \A r \in Range(listed'[w]) :
                  (/\ r.createdAt # NoTime /\ since[w] # NoTime
                   /\ r.createdAt < since[w]
                   /\ r.fill \notin FillsOf(tradeHistory[w])
                   /\ ~knownPositionsHas(w, r.id)
                   /\ isNewTrade(TradeOfRecord(w, r), tradeHistory[w]))
                      => r.fill \in FillsOf(batch'[w])]_vars

\* C10 (amended): each emitted event sets the wallet's watermark to that
\* event's timestamp, and a listed position whose timestamp is not later than
\* the watermark read at the start of the poll is dropped before the duplicate
\* checks, so it is not emitted on that poll.
C10_WatermarkPerEventLateDropped ==
    [][\A w \in Wallets :
          /\ Len(tradeHistory'[w]) > Len(tradeHistory[w]) =>
                lastTradeTimestamps'[w] = tradeHistory'[w][Len(tradeHistory'[w])].timestamp
          /\ (pc[w] = "fetch" /\ pc'[w] = "loop") =>
                \A r \in Range(listed'[w]) :
                    (r.createdAt # NoTime /\ since[w] # NoTime /\ r.createdAt <= since[w])
                        => r.fill \notin FillsOf(batch'[w])]_vars

\* a poll that read the watermark an emission had set has listed a position
\* older than it, never seen before, and the position was not emitted
C10_Witness ==
    \E w \in Wallets :
        /\ pc[w] = "idle"
        /\ tradeHistory[w] # <<>>
        /\ since[w] = tradeHistory[w][Len(tradeHistory[w])].timestamp
        /\ lastTradeTimestamps[w] = since[w]
        /\ \E r \in Range(listed[w]) :
              /\ r.createdAt # NoTime /\ r.createdAt < since[w]
              /\ r.fill \notin FillsOf(tradeHistory[w])
              /\ ~knownPositionsHas(w, r.id)
              /\ isNewTrade(TradeOfRecord(w, r), tradeHistory[w])

\* the ways a record of a wallet fails: it does not parse, or its processing
\* (the callback) ends in an error
Failures == {"invalid", "failed"}

\* a record of wallet w fails in this step
RecordFailed(w) ==
    /\ lastOutcome'[w] # lastOutcome[w]
    /\ lastOutcome'[w].result \in Failures

\* the step changes nothing of the check of any wallet other than w
OthersUntouched(w) ==
    \A v \in Wallets \ {w} :
        /\ pc'[v] = pc[v] /\ batch'[v] = batch[v] /\ since'[v] = since[v]
        /\ tradeHistory'[v] = tradeHistory[v]
        /\ lastKnownPositions'[v] = lastKnownPositions[v]
        /\ lastTradeTimestamps'[v] = lastTradeTimestamps[v]
        /\ call'[v] = call[v] /\ lastOutcome'[v] = lastOutcome[v]

\* C11 (as claimed): after a failure while checking a wallet (here a record
\* that does not parse or whose processing failed) the wallet yields no
\* further event in that cycle.
C11_NoEventAfterFailure ==
    [][\A w \in Wallets :
          (pc[w] = "loop" /\ lastOutcome[w].result \in Failures) =>
              tradeHistory'[w] = tradeHistory[w]]_vars

\* C11 (amended): a failure while checking a wallet stays inside that wallet's
\* checkWallet and leaves the other wallets' checks untouched; a failed fetch
\* of the position list yields what the fallback sources give (nothing when
\* they have nothing), while a record that does not parse or whose callback
\* fails is skipped alone: the loop goes on with the wallet's remaining
\* records of the cycle.
C11_FailureSkipsOnlyThatRecord ==
    [][\A w \in Wallets :
          /\ RecordFailed(w) =>
                /\ pc'[w] = "loop"
                /\ batch'[w] = batch[w] \/ (batch[w] # <<>> /\ batch'[w] = Tail(batch[w]))
                /\ OthersUntouched(w)
          /\ (pc[w] = "fetch" /\ pc'[w] = "loop" /\ listed'[w] = <<>>) =>
                /\ batch'[w] \in venueFeed.fallback
                /\ OthersUntouched(w)]_vars

\* a record of one wallet has failed, records of its cycle are still to be
\* handled, and the other wallet's check of the same cycle has emitted and
\* completed
C11_Witness ==
    \E w \in Wallets : \E v \in Monitored \ {w} :
        /\ pc[w] = "loop" /\ lastOutcome[w].result \in Failures
        /\ batch[w] # <<>>
        /\ tradeHistory[w] = <<>>
        /\ pc[v] = "idle" /\ tradeHistory[v] # <<>>
        /\ lastOutcome[v].result = "copied"

\* wallet w's watcher emits an event in this step (the callback is invoked)
Emitted(w) == Len(tradeHistory'[w]) > Len(tradeHistory[w])

\* the event emitted in this step
EmittedTrade(w) == tradeHistory'[w][Len(tradeHistory'[w])]

\* a processTrade of wallet w returns true in this step
ReturnsCopied(w) == Len(copiedFills'[w]) > Len(copiedFills[w])

\* C12: per CopyTrader at most one processTrade returns true for a composite
\* key: keys are never removed, a key enters the copied set only when its
\* execution succeeded and was not in the set before, and an event whose key
\* is in the set is skipped without any order being placed.
C12_OneCopyPerKey ==
    [][\A w \in Wallets :
          /\ copiedTrades[w] \subseteq copiedTrades'[w]
          /\ ReturnsCopied(w) =>
                /\ tradeKey(call[w].trade) \notin copiedTrades[w]
                /\ copiedTrades'[w] = copiedTrades[w] \cup {tradeKey(call[w].trade)}
                /\ lastOutcome'[w].result = "copied"
          /\ copiedTrades'[w] # copiedTrades[w] => ReturnsCopied(w)
          /\ (Emitted(w) /\ tradeKey(EmittedTrade(w)) \in copiedTrades[w]) =>
                /\ lastOutcome'[w].result = "already_copied"
                /\ activeOrders' = activeOrders
                /\ call'[w] = NoCall /\ pc'[w] = "loop"]_vars

\* an event whose key had been copied was emitted and skipped, the orders of
\* the one copy being all there is at the executor
C12_Witness ==
    \E w \in Wallets :
        /\ lastOutcome[w].result = "already_copied"
        /\ Len(copiedFills[w]) = 1
        /\ Cardinality(copiedTrades[w]) = 1
        /\ Len(activeOrders) \in {1, 2}
        /\ \A id \in DOMAIN activeOrders : activeOrders[id].status = "pending"

\* wallet w's engine has an order accepted by the venue in this step
Places(w) == Len(activeOrders') > Len(activeOrders) /\ pc'[w] # pc[w]

\* the order accepted in this step
PlacedOrder == activeOrders'[Len(activeOrders')]

\* the validity bounds written out: profit between the configured minimum and
\* maximum, both liquidities at least the configured minimum
WithinBounds(opp) ==
    /\ ArbConfig.minArbProfitPct * opp.profitDen <= opp.profitNum * 100
    /\ opp.profitNum * 100 <= ArbConfig.maxArbProfitPct * opp.profitDen
    /\ opp.liquidityYes >= ArbConfig.minLiquidityUsd * 100
    /\ opp.liquidityNo >= ArbConfig.minLiquidityUsd * 100

\* C17: the mirrored size is min(observed sizeUsd * positionSizeMultiplier,
\* maxPositionSizeUsd), replaced by 0 when below 10, and a size of 0 makes
\* processTrade skip without placing an order; with multiplier 0.01 and cap
\* 2000 an observed 50,000 gives 500 and an observed 500 gives 0.
C17_MirroredSize ==
    [][\A w \in Wallets :
          Emitted(w) =>
              LET cfg == walletConfig[w]
                  scaled == (EmittedTrade(w).sizeUsd * cfg.positionSizeMultiplier) \div 100
                  capped == IF scaled < cfg.maxPositionSizeUsd
                            THEN scaled ELSE cfg.maxPositionSizeUsd
              IN /\ calculatePositionSize(EmittedTrade(w), cfg)
                       = IF capped < 10 THEN 0 ELSE capped
                 /\ call'[w] # NoCall =>
                       capped >= 10 /\ call'[w].positionSizeUsd = capped
                 /\ capped < 10 =>
                       /\ call'[w] = NoCall /\ pc'[w] = "loop"
                       /\ activeOrders' = activeOrders
                       /\ lastOutcome'[w].result # "execute"
                 /\ calculatePositionSize([sizeUsd |-> 50000], ArbWalletConfig) = 500
                 /\ calculatePositionSize([sizeUsd |-> 500], ArbWalletConfig) = 0]_vars

\* an observed trade of 500 dollars was emitted and skipped as too small, no
\* order having been placed
C17_Witness ==
    \E w \in Wallets :
        /\ lastOutcome[w].result = "size_too_small"
        /\ tradeHistory[w][Len(tradeHistory[w])].sizeUsd = 500
        /\ activeOrders = <<>>

\* C18: when both legs of a hedged pair are placed, exactly two positions are
\* recorded for the market, a YES buy and a NO buy of half the sized notional
\* each, total and market exposure grow by exactly the notional, and each
\* leg's order is for (half notional / that leg's ask) shares at that ask.
C18_HedgedPairRecorded ==
    [][\A w \in Wallets :
          (pc[w] = "placeNo" /\ ReturnsCopied(w)) =>
              LET c == call[w]
                  m == c.arbOpp.marketId
                  half == c.positionSizeUsd \div 2
                  Leg(o) == [outcome |-> o, side |-> "buy", sizeUsd |-> half,
                             entryPrice |-> 0]
                  LegOrder(o, ask) ==
                      [marketId |-> m, outcome |-> o, side |-> "buy", price |-> ask,
                       size |-> (half * 10000) \div ask, status |-> "pending"]
              IN /\ 2 * half = c.positionSizeUsd
                 /\ positions'[m] = positions[m] \o <<Leg("YES"), Leg("NO")>>
                 /\ \A n \in Markets \ {m} : positions'[n] = positions[n]
                 /\ totalExposure' = totalExposure + c.positionSizeUsd
                 /\ SumSizes(positions'[m]) = SumSizes(positions[m]) + c.positionSizeUsd
                 /\ Len(activeOrders') = Len(activeOrders) + 1
                 /\ activeOrders'[c.yesOrder] = LegOrder("YES", c.arbOpp.yesPrice)
                 /\ activeOrders'[Len(activeOrders')] = LegOrder("NO", c.arbOpp.noPrice)]_vars

\* a hedged pair was placed in full: two orders, two positions on the market
C18_Witness ==
    \E w \in Wallets : \E m \in Markets :
        /\ walletConfig[w].requireArbSignal
        /\ lastOutcome[w].result = "copied"
        /\ Cardinality(lastOutcome[w].orders) = 2
        /\ Len(positions[m]) = 2
        /\ totalExposure = SumSizes(positions[m])

\* C19: a directional mirror places exactly one order, on the observed
\* market with the observed outcome, side and price and sized notional /
\* observed price shares, and records one position of the sized notional if
\* and only if the placement returned an order; on failure nothing is
\* recorded and the event is not marked copied.
C19_DirectionalMirror ==
    [][\A w \in Wallets :
          (pc[w] = "place" /\ pc'[w] # "place") =>
              LET c == call[w]
                  t == c.trade
                  placed == Len(activeOrders') > Len(activeOrders)
              IN /\ Len(activeOrders') <= Len(activeOrders) + 1
                 /\ pc'[w] = "loop" /\ call'[w] = NoCall
                 /\ placed =>
                       /\ PlacedOrder =
                             [marketId |-> t.marketId, outcome |-> t.outcome,
                              side |-> t.side, price |-> t.price,
                              size |-> (c.positionSizeUsd * 10000) \div t.price,
                              status |-> "pending"]
                       /\ positions'[t.marketId] =
                             Append(positions[t.marketId],
                                    [outcome |-> t.outcome, side |-> t.side,
                                     sizeUsd |-> c.positionSizeUsd, entryPrice |-> 0])
                       /\ \A n \in Markets \ {t.marketId} : positions'[n] = positions[n]
                       /\ totalExposure' = totalExposure + c.positionSizeUsd
                       /\ lastOutcome'[w].result = "copied"
                       /\ tradeKey(t) \in copiedTrades'[w]
                 /\ ~placed =>
                       /\ activeOrders' = activeOrders
                       /\ positions' = positions /\ totalExposure' = totalExposure
                       /\ copiedTrades'[w] = copiedTrades[w]
                       /\ lastOutcome'[w].result = "failed"]_vars

\* a directional mirror has placed its one order and recorded its one position
C19_Witness ==
    \E w \in Wallets : \E m \in Markets :
        /\ ~walletConfig[w].requireArbSignal
        /\ lastOutcome[w].result = "copied"
        /\ Cardinality(lastOutcome[w].orders) = 1
        /\ Len(activeOrders) = 1
        /\ Len(positions[m]) = 1 /\ totalExposure = positions[m][1].sizeUsd

\* C28: with two wallets' CopyTraders processing events for the same market
\* concurrently, a call records only what canOpenPosition admitted against
\* the ledger it read, and the recording takes a market (or the total) over
\* its ceiling only if another position was recorded between that check and
\* this recording; such an interleaving is reachable (the witness).
C28_CeilingExceededOnlyByOverlap ==
    [][\A w \in Wallets :
          (call[w] # NoCall /\ call'[w] = NoCall /\ positions' # positions) =>
             LET c == call[w]
                 m == c.trade.marketId
             IN /\ c.checkedMarket + c.positionSizeUsd <= config.maxPositionPerMarketUsd
                /\ c.checkedTotal + c.positionSizeUsd <= config.maxTotalExposureUsd
                /\ SumSizes(positions'[m]) > config.maxPositionPerMarketUsd =>
                      SumSizes(positions[m]) > c.checkedMarket
                /\ totalExposure' > config.maxTotalExposureUsd =>
                      totalExposure > c.checkedTotal]_vars

\* both wallets' calls passed canOpenPosition for 1500 on an empty ledger and
\* both recorded: the market holds 3000 against a ceiling of 2000
C28_Witness ==
    /\ \A w \in Wallets : Len(copiedFills[w]) = 1
    /\ Len(positions["m1"]) = 2
    /\ SumSizes(positions["m1"]) = 3000
    /\ SumSizes(positions["m1"]) > config.maxPositionPerMarketUsd
    /\ \A i \in 1..2 : canOpenVerdict("m1", positions["m1"][i].sizeUsd) = "market_exposure"

\* C16: for a wallet that requires an arbitrage signal an order is placed for
\* a market only if the cache held a valid entry for it when the gate of the
\* same processTrade call was evaluated; an event arriving without one is
\* skipped and no order is placed.
C16_OrderOnlyWithSignal ==
    [][\A w \in Wallets :
          walletConfig[w].requireArbSignal =>
              /\ Emitted(w) =>
                    LET m == EmittedTrade(w).marketId
                        gate == activeOpportunities[m] # NoOpp
                                   /\ WithinBounds(activeOpportunities[m])
                    IN /\ call'[w] # NoCall =>
                             gate /\ call'[w].arbOpp = activeOpportunities[m]
                       /\ ~gate =>
                             /\ lastOutcome'[w].result \in {"no_arb_signal", "already_copied"}
                             /\ call'[w] = NoCall /\ pc'[w] = "loop"
                             /\ activeOrders' = activeOrders
              /\ Places(w) =>
                    /\ call[w].arbOpp # NoOpp /\ WithinBounds(call[w].arbOpp)
                    /\ PlacedOrder.marketId = call[w].trade.marketId
                    /\ PlacedOrder.marketId = call[w].arbOpp.marketId]_vars

\* a wallet requiring the signal had an event skipped for want of a signal,
\* after an event on a market with one had its orders placed
C16_Witness ==
    \E w \in Wallets :
        /\ walletConfig[w].requireArbSignal
        /\ lastOutcome[w].result = "no_arb_signal"
        /\ Len(activeOrders) >= 1
        /\ \A id \in DOMAIN activeOrders : hasOpportunity(activeOrders[id].marketId)

----------------------------------------------------------------------------
(* Properties of the ArbitrageDetector, checked under SpecArb *)

\* what the last scan of market m yielded
LastScan(m) == scanMarket(m, scannedBooks[m])

\* C13 (as claimed): after a scan of market m that yields no valid
\* opportunity the cache holds no entry for m, so hasOpportunity(m) is false.
C13_AbsentScanClearsEntry ==
    \A m \in Markets :
        LastScan(m) = NoOpp =>
            activeOpportunities[m] = NoOpp /\ ~hasOpportunity(m)

\* C14: every entry of the opportunity cache satisfies the validity bounds, a
\* computed opportunity that fails them is never written, and
\* hasOpportunity(m) is true exactly when getOpportunity(m) is non-null.
C14_CacheHoldsOnlyValid ==
    \A m \in Markets :
        /\ activeOpportunities[m] # NoOpp => WithinBounds(activeOpportunities[m])
        /\ hasOpportunity(m) <=> getOpportunity(m) # NoOpp
        /\ scannedBooks[m] # NoBook =>
              LET opp == detectInternalArbitrage(m, scannedBooks[m])
              IN (opp # NoOpp /\ ~WithinBounds(opp)) => activeOpportunities[m] # opp

\* one market's scan computed an opportunity outside the bounds, which is not
\* in the cache, while the other market's valid one is
C14_Witness ==
    \E m, n \in Markets :
        /\ scannedBooks[m] # NoBook
        /\ detectInternalArbitrage(m, scannedBooks[m]) # NoOpp
        /\ ~WithinBounds(detectInternalArbitrage(m, scannedBooks[m]))
        /\ activeOpportunities[m] = NoOpp
        /\ activeOpportunities[n] # NoOpp /\ hasOpportunity(n)

\* the lowest ask price of an outcome of a book with asks for it
LowestAsk(orderBook, o) ==
    CHOOSE p \in {orderBook[o][i].price : i \in 1..Len(orderBook[o])} :
        \A i \in 1..Len(orderBook[o]) : p <= orderBook[o][i].price

\* C15: detectInternalArbitrage yields an opportunity exactly when both
\* outcomes have a best ask and (askYES + askNO) * 1.01 < 0.99, with
\* profitPct = (1 - feeAdjustedCost) / feeAdjustedCost; asks 0.48 and 0.49
\* give cost 0.9797 and profitPct 0.0207, asks 0.52 and 0.50 give 1.0302 and
\* nothing.
C15_InternalArbitrageThreshold ==
    \A m \in Markets :
        scannedBooks[m] # NoBook =>
            LET book == scannedBooks[m]
                opp == detectInternalArbitrage(m, book)
                bothAsks == Len(book["YES"]) > 0 /\ Len(book["NO"]) > 0
                cost == (LowestAsk(book, "YES") + LowestAsk(book, "NO")) * 101
            IN /\ opp # NoOpp <=> (bothAsks /\ cost < 9900)
               /\ opp # NoOpp =>
                     /\ opp.yesPrice = LowestAsk(book, "YES")
                     /\ opp.noPrice = LowestAsk(book, "NO")
                     /\ opp.profitDen = cost /\ opp.profitNum = 10000 - cost
               /\ (bothAsks /\ LowestAsk(book, "YES") = 48 /\ LowestAsk(book, "NO") = 49) =>
                     /\ opp # NoOpp /\ opp.profitDen = 9797
                     /\ (opp.profitNum * 10000) \div opp.profitDen = 207
               /\ (bothAsks /\ LowestAsk(book, "YES") = 52 /\ LowestAsk(book, "NO") = 50) =>
                     opp = NoOpp /\ cost = 10302

\* the last scan got asks 0.48 / 0.49 for one market, 0.52 / 0.50 for another
\* and a book just above the threshold in between
C15_Witness ==
    /\ \E m \in Markets :
          /\ scannedBooks[m] # NoBook /\ detectInternalArbitrage(m, scannedBooks[m]) # NoOpp
          /\ detectInternalArbitrage(m, scannedBooks[m]).totalCost = 97
    /\ \E m \in Markets :
          /\ scannedBooks[m] # NoBook /\ Len(scannedBooks[m]["YES"]) > 0
          /\ LowestAsk(scannedBooks[m], "YES") = 52
          /\ detectInternalArbitrage(m, scannedBooks[m]) = NoOpp

----------------------------------------------------------------------------
(* Properties of the OrderExecutor, checked under SpecExec *)

\* C20: placeOrder returns an order, tracked with status pending, exactly when
\* the venue's answer carries an identifier; when the venue returns nothing, a
\* result without identifier, or throws, it returns null and the tracked
\* orders are unchanged.
C20_PlaceOrderTracksIffIdentifier ==
    [][execRet'.op = "placeOrder" =>
          /\ execRet'.ok <=> execRet'.answer = "id"
          /\ execRet'.answer = "id" =>
                /\ Len(activeOrders') = Len(activeOrders) + 1
                /\ execRet'.orderId = Len(activeOrders')
                /\ activeOrders'[execRet'.orderId].status = "pending"
                /\ \A id \in DOMAIN activeOrders : activeOrders'[id] = activeOrders[id]
          /\ execRet'.answer \in {"nothing", "no_id", "throws"} =>
                /\ execRet'.orderId = 0
                /\ activeOrders' = activeOrders]_vars

\* with an order tracked, the venue answered a placement with a result that
\* carries no identifier and placeOrder returned null
C20_Witness ==
    /\ execRet.op = "placeOrder" /\ execRet.answer = "no_id" /\ ~execRet.ok
    /\ Len(activeOrders) = 1 /\ activeOrders[1].status = "pending"

\* C21: a tracked order's status only moves from pending to cancelled, and
\* only when the venue's cancel call for it succeeded; a failed cancel, or a
\* cancel for an id not tracked, returns false and changes no status, the
\* untracked id being rejected without a call to the venue.
C21_CancelledOnlyOnVenueSuccess ==
    [][/\ \A id \in DOMAIN activeOrders :
             /\ id \in DOMAIN activeOrders'
             /\ \/ activeOrders'[id] = activeOrders[id]
                \/ /\ activeOrders[id].status = "pending"
                   /\ activeOrders'[id] = [activeOrders[id] EXCEPT !.status = "cancelled"]
                   /\ execRet' = [op |-> "cancelOrder", answer |-> "ok", ok |-> TRUE,
                                  orderId |-> id]
       /\ execRet'.op = "cancelOrder" =>
             /\ execRet'.ok <=> execRet'.answer = "ok"
             /\ ~execRet'.ok => activeOrders' = activeOrders
             /\ execRet'.orderId \notin DOMAIN activeOrders =>
                   execRet'.answer = "not_called"]_vars

\* one order was cancelled, then the cancel of another failed at the venue and
\* left it pending
C21_Witness ==
    /\ execRet = [op |-> "cancelOrder", answer |-> "throws", ok |-> FALSE, orderId |-> 2]
    /\ Len(activeOrders) = 2
    /\ activeOrders[1].status = "cancelled"
    /\ activeOrders[2].status = "pending"

\* C22: closePosition(market, outcome, exitPrice) removes exactly one
\* position, the oldest open one of that market with that outcome and side
\* buy, takes its size off the total exposure and adds the realized PnL to
\* dailyPnl; without such a position it returns null and leaves positions,
\* total exposure and dailyPnl unchanged.
C22_CloseRemovesOldestMatch ==
    [][\A m \in Markets, o \in Outcomes, x \in ExitPrices :
          ClosePositionCall(m, o, x) =>
             LET ps == positions[m]
                 matching == {i \in 1..Len(ps) : ps[i].outcome = o /\ ps[i].side = "buy"}
             IN IF matching = {}
                THEN /\ ~riskRet'.ok
                     /\ UNCHANGED <<positions, totalExposure, dailyPnl>>
                ELSE LET i == CHOOSE k \in matching : \A j \in matching : k <= j
                     IN /\ riskRet'.ok
                        /\ positions'[m] = SubSeq(ps, 1, i - 1) \o SubSeq(ps, i + 1, Len(ps))
                        /\ \A n \in Markets \ {m} : positions'[n] = positions[n]
                        /\ OpenCount(positions') = OpenCount(positions) - 1
                        /\ totalExposure' = totalExposure - ps[i].sizeUsd
                        /\ dailyPnl' = dailyPnl + riskRet'.pnl]_vars

\* two YES buys were open, the 500 one the older; a close with exit price 75
\* returned its PnL of 250 and left the 1000 one
C22_Witness ==
    /\ riskRet = [op |-> "closePosition", ok |-> TRUE, pnl |-> 250]
    /\ \E m \in Markets :
          /\ positions[m] = <<[outcome |-> "YES", side |-> "buy", sizeUsd |-> 1000,
                               entryPrice |-> 50]>>
          /\ \A n \in Markets \ {m} : positions[n] = <<>>
    /\ totalExposure = 1000
    /\ dailyPnl = 250

\* C23 (as claimed): for every position closed with an exit price the PnL
\* returned and added to dailyPnl is (exitPrice - entryPrice) * sizeUsd /
\* entryPrice of the closed position, stated without the division as
\* pnl * entryPrice = (exitPrice - entryPrice) * sizeUsd; positions recorded
\* without an entry price, as the replication engine records them, included.
C23_PnlFormulaForEveryClose ==
    [][\A m \in Markets, o \in Outcomes, x \in ExitPrices :
          (ClosePositionCall(m, o, x) /\ x # 0 /\ firstMatch(positions[m], o) # 0) =>
             LET p == positions[m][firstMatch(positions[m], o)]
             IN /\ riskRet'.pnl * p.entryPrice = (x - p.entryPrice) * p.sizeUsd
                /\ dailyPnl' = dailyPnl + riskRet'.pnl]_vars

\* C24 (as claimed): whenever getExposure is called on a calendar day other
\* than the day of the last reset, dailyPnl is 0 when the snapshot is
\* returned.
C24_ResetOnEveryOtherDay ==
    [][(GetExposureCall /\ today # lastResetDate) => dailyPnl' = 0]_vars

\* C25: after stop() has cleared the running flags no loop begins a new
\* iteration, stop() itself moves no loop, a loop exits only from the end of
\* the sleep of the iteration that was in flight, and every loop does exit.
C25_LoopsWindDownAfterStop ==
    /\ [][Stopped =>
             /\ iterations' = iterations
             /\ \A l \in Loops :
                   (loopPc'[l] = "done" /\ loopPc[l] # "done") => loopPc[l] = "sleep"]_vars
    /\ [][(running /\ ~running') => loopPc' = loopPc]_vars
    /\ (Stopped ~> (\A l \in Loops : loopPc[l] = "done"))

\* stop() came while checkAllWallets and scanMarkets were in flight and the
\* status loop slept; all three loops have since exited
C25_Witness ==
    /\ atStop = [l \in Loops |-> CASE l = "walletMonitor" -> "checkAllWallets"
                                   [] l = "arbScan" -> "scanMarkets"
                                   [] OTHER -> "sleep"]
    /\ ~running /\ ~monitorRunning
    /\ \A l \in Loops : loopPc[l] = "done"

\* C26: in scanMarkets a market whose order book fetch fails does not fail
\* the batch: the call returns and caches the opportunity of every other
\* market whose scan found one, and the failing market adds nothing to the
\* returned list and leaves its cache entry as it was.
C26_FailedScanLeavesOthers ==
    [][\A m \in Markets :
          scannedBooks'[m] = NoBook =>
             /\ activeOpportunities'[m] = activeOpportunities[m]
             /\ \A opp \in scanMarkets(scannedBooks').opportunities : opp.marketId # m
             /\ \A n \in Markets \ {m} :
                   LET found == detectInternalArbitrage(n, scannedBooks'[n])
                   IN (scannedBooks'[n] # NoBook /\ found # NoOpp /\ WithinBounds(found)) =>
                         /\ found \in scanMarkets(scannedBooks').opportunities
                         /\ activeOpportunities'[n] = found]_vars

\* the last scan failed for one market, whose entry from an earlier scan is
\* still cached, and found the other market's opportunity, now cached
C26_Witness ==
    \E m, n \in Markets :
        /\ scannedBooks[m] = NoBook
        /\ activeOpportunities[m] # NoOpp
        /\ scannedBooks[n] # NoBook
        /\ LastScan(n) # NoOpp
        /\ activeOpportunities[n] = LastScan(n)

\* the open positions of market m with outcome o
OutcomeOpen(m, o) == {x \in MarketOpen(m) : positions[x[1]][x[2]].outcome = o}

\* what C27 says shouldHedge(m) is
HedgeDue(m) ==
    LET yes == SumOpen(OutcomeOpen(m, "YES"))
        no == SumOpen(OutcomeOpen(m, "NO"))
    IN /\ config.enableAutoHedge
       /\ Cardinality(MarketOpen(m)) >= 2
       /\ 5 * Abs(yes - no) > yes + no

\* C27: shouldHedge(market) is true exactly when auto-hedge is enabled, the
\* market holds at least two open positions and |YES exposure - NO exposure|
\* is strictly greater than 20% of their sum; the call changes neither the
\* ledger nor the tracked orders.
C27_ShouldHedgeIffImbalanced ==
    /\ [](/\ \A m \in Markets : shouldHedge(m) <=> HedgeDue(m)
          /\ riskRet.op = "shouldHedge" => (riskRet.ok <=> HedgeDue(riskRet.marketId)))
    /\ [][(riskRet'.op = "shouldHedge" /\ riskRet' # riskRet) =>
             UNCHANGED <<positions, totalExposure, dailyPnl, lastResetDate,
                         activeOrders>>]_vars

\* auto-hedge is on; shouldHedge returned false for a market holding YES 750
\* and NO 500, an imbalance of exactly 20%, and is true for the other market,
\* which holds two NO positions
C27_Witness ==
    /\ config.enableAutoHedge
    /\ riskRet.op = "shouldHedge" /\ ~riskRet.ok
    /\ Len(positions[riskRet.marketId]) = 2
    /\ SumOpen(OutcomeOpen(riskRet.marketId, "YES")) = 750
    /\ SumOpen(OutcomeOpen(riskRet.marketId, "NO")) = 500

----------------------------------------------------------------------------
(* Properties of CopyTrader.processTrade, checked under SpecTrader *)

\* the size processTrade computes for a trade
MirroredSize(w, trade) ==
    LET scaled == (trade.sizeUsd * walletConfig[w].positionSizeMultiplier) \div 100
    IN IF scaled < walletConfig[w].maxPositionSizeUsd
       THEN scaled ELSE walletConfig[w].maxPositionSizeUsd

\* the six checks in the order claimed, TRUE where the trade passes
Gates(w, trade) ==
    LET cfg == walletConfig[w]
        m == trade.marketId
        sz == MirroredSize(w, trade)
    IN << <<trade.txHash, m, trade.outcome, trade.side>> \notin copiedTrades[w],
          cfg.enabled,
          cfg.marketsFilter = NoFilter \/ m \in cfg.marketsFilter,
          ~cfg.requireArbSignal
              \/ (activeOpportunities[m] # NoOpp /\ WithinBounds(activeOpportunities[m])),
          sz >= 10,
          /\ dailyPnl > -config.maxDailyLossUsd
          /\ SumOpen(AllOpenPositions) + sz <= config.maxTotalExposureUsd
          /\ SumOpen(MarketOpen(m)) + sz <= config.maxPositionPerMarketUsd >>

SkipNames ==
    <<"already_copied", "wallet_disabled", "market_filtered", "no_arb_signal",
      "size_too_small", "risk_rejected">>

\* the first check the trade fails, 0 when it passes all six
FirstFailed(w, trade) ==
    LET failed == {k \in 1..6 : ~Gates(w, trade)[k]}
    IN IF failed = {} THEN 0 ELSE CHOOSE k \in failed : \A j \in failed : k <= j

\* C29: every order placed belongs to a processTrade call in flight, and a
\* call gets past its checks only when the trade passed, in this order, dedup,
\* the wallet-enabled check, the market allow-list, the arbitrage gate, a
\* computed size of at least 10 and canOpenPosition for that size; the first
\* check that fails ends the call with no order placed.
C29_OrderOnlyAfterAllChecks ==
    [][\A w \in Wallets :
          /\ \A trade \in TraderTrades(w) :
                ProcessTradeCall(w, trade) =>
                    LET k == FirstFailed(w, trade)
                    IN IF k = 0
                       THEN /\ call'[w].trade = trade
                            /\ call'[w].positionSizeUsd = MirroredSize(w, trade)
                            /\ pc'[w] \in {"place", "placeYes"}
                       ELSE /\ lastOutcome'[w].result = SkipNames[k]
                            /\ call'[w] = NoCall /\ pc'[w] = "loop"
                            /\ activeOrders' = activeOrders
          /\ (call[w] = NoCall /\ call'[w] # NoCall) =>
                \E trade \in TraderTrades(w) :
                    ProcessTradeCall(w, trade) /\ FirstFailed(w, trade) = 0
          /\ Places(w) =>
                /\ call[w] # NoCall
                /\ pc[w] \in {"place", "placeYes", "placeNo"}
                /\ PlacedOrder.marketId = call[w].trade.marketId]_vars

\* the wallet with an allow-list and the arbitrage requirement has copied a
\* trade as a hedged pair in the allowed market, and a trade in the other
\* market was then skipped by the allow-list
C29_Witness ==
    /\ walletConfig["w1"] = FilteredArbWalletConfig
    /\ Len(copiedFills["w1"]) = 1
    /\ Len(activeOrders) = 2
    /\ \A id \in DOMAIN activeOrders : activeOrders[id].marketId = "m2"
    /\ lastOutcome["w1"].result = "market_filtered"

\* C30: a processTrade that ends in a skip returns false and leaves the
\* ledger's positions, total exposure and dailyPnl, the tracked orders and
\* the copied-key set unchanged.
C30_SkipChangesNothing ==
    [][\A w \in Wallets : \A trade \in TraderTrades(w) :
          (ProcessTradeCall(w, trade) /\ FirstFailed(w, trade) # 0) =>
              /\ lastOutcome'[w] = [fill |-> trade.fill,
                                    result |-> SkipNames[FirstFailed(w, trade)],
                                    orders |-> {}]
              /\ call'[w] = NoCall
              /\ UNCHANGED <<positions, totalExposure, dailyPnl, activeOrders,
                             copiedTrades, copiedFills>>]_vars

\* a disabled wallet's trade was skipped while the other wallet's copy, its
\* two orders and its two positions stand
C30_Witness ==
    /\ lastOutcome["w2"].result = "wallet_disabled"
    /\ Len(activeOrders) = 2
    /\ totalExposure = 1500
    /\ Cardinality(copiedTrades["w1"]) = 1
    /\ copiedTrades["w2"] = {}

----------------------------------------------------------------------------
(* Further properties of the RiskManager, checked under SpecRisk *)

\* C31: canOpenPosition is a pure read that reserves no capacity: a call
\* leaves positions, total exposure and dailyPnl unchanged, so the same call
\* made again right after it returns the same result.
C31_CanOpenIsPureRead ==
    [][\A m \in Markets, sz \in SizesUsd :
          CanOpenPositionCall(m, sz) =>
             /\ UNCHANGED <<positions, totalExposure, dailyPnl, lastResetDate>>
             /\ riskRet'.ok = canOpenPosition(m, sz)
             /\ riskRet'.ok = canOpenPosition(m, sz)']_vars

\* a call was admitted on a ledger that holds a position, and the headroom it
\* was admitted against is still there
C31_Witness ==
    /\ riskRet.op = "canOpenPosition" /\ riskRet.ok
    /\ totalExposure = 1000
    /\ config = TightRiskConfig
    /\ \E m \in Markets : canOpenVerdict(m, 1000) = "ok" /\ Len(positions[m]) = 1

----------------------------------------------------------------------------
(* Properties of PolymarketClient.getWalletTrades, checked under SpecClient *)

\* C32 (as claimed): getWalletTrades returns the result of the first of its
\* sources (positions, chain log, activity, trades) that yields a non-empty
\* list of trades; the position source is passed over when every position is
\* filtered out as not newer than the watermark.
C32_FirstNonEmptySourceWins ==
    clientRet.op = "getWalletTrades" =>
        LET fromPositions ==
                transformPositionsToTrades(clientRet.positions, clientRet.since, now)
        IN clientRet.result =
              IF Len(fromPositions) > 0 THEN fromPositions
              ELSE IF Len(clientRet.chain) > 0 THEN clientRet.chain
              ELSE IF Len(clientRet.activity) > 0 THEN clientRet.activity
              ELSE clientRet.trades

----------------------------------------------------------------------------
(* Properties of processTrade calls made one at a time, checked under
   SpecSerial *)

\* C33: when every processTrade finishes before the next begins, over all
\* engines sharing the RiskManager, the total exposure never exceeds
\* maxTotalExposureUsd and no market's exposure exceeds
\* maxPositionPerMarketUsd.
C33_SerialStaysUnderCeilings ==
    /\ totalExposure <= config.maxTotalExposureUsd
    /\ SumOpen(AllOpenPositions) <= config.maxTotalExposureUsd
    /\ \A m \in Markets : SumOpen(MarketOpen(m)) <= config.maxPositionPerMarketUsd

\* one wallet's copy of 1500 stands in market m1 and the other wallet's trade
\* in that market, processed after it, was rejected by the risk gate
C33_Witness ==
    /\ \A w \in Wallets : pc[w] = "idle" /\ call[w] = NoCall
    /\ SumOpen(MarketOpen("m1")) = 1500
    /\ Len(copiedFills["w1"]) = 1
    /\ lastOutcome["w2"] = [fill |-> "a", result |-> "risk_rejected", orders |-> {}]

----------------------------------------------------------------------------
(* Properties of the hedged action under scans that run meanwhile, checked
   under SpecHedged *)

\* C34: both legs of one hedged action are priced and sized from the same
\* opportunity snapshot. The snapshot is the cache entry at the moment the
\* call passed the risk gate, it stays the call's snapshot until the call
\* returns, and the NO leg placed after the YES answer carries the snapshot's
\* NO price and the share count computed from it, whatever a scan wrote to
\* the cache in between; a YES leg that was placed carries the snapshot's YES
\* price.
C34_LegsShareOneSnapshot ==
    [][\A w \in Wallets :
          /\ (call[w] = NoCall /\ call'[w] # NoCall /\ call'[w].arbOpp # NoOpp) =>
                call'[w].arbOpp = getOpportunity(call'[w].trade.marketId)
          /\ (call[w] # NoCall /\ call'[w] # NoCall) =>
                call'[w].arbOpp = call[w].arbOpp
          /\ (pc[w] = "placeNo" /\ pc'[w] # "placeNo"
                 /\ Len(activeOrders') > Len(activeOrders)) =>
                LET c == call[w]
                    noOrder == activeOrders'[Len(activeOrders')]
                IN /\ noOrder.outcome = "NO"
                   /\ noOrder.price = c.arbOpp.noPrice
                   /\ noOrder.size = Shares(legSizeUsd(c.positionSizeUsd), c.arbOpp.noPrice)
                   /\ c.yesOrder # 0 =>
                         /\ activeOrders[c.yesOrder].price = c.arbOpp.yesPrice
                         /\ activeOrders[c.yesOrder].size =
                               Shares(legSizeUsd(c.positionSizeUsd), c.arbOpp.yesPrice)]_vars

\* a hedged action has both legs placed at its snapshot's prices while the
\* cache entry of the market has been overwritten with another NO price
C34_Witness ==
    \E w \in Wallets :
        /\ lastOutcome[w].result = "copied"
        /\ Cardinality(lastOutcome[w].orders) = 2
        /\ \E y, n \in lastOutcome[w].orders :
              /\ activeOrders[y].outcome = "YES" /\ activeOrders[n].outcome = "NO"
              /\ activeOrders[y].marketId = activeOrders[n].marketId
              /\ getOpportunity(activeOrders[n].marketId) # NoOpp
              /\ getOpportunity(activeOrders[n].marketId).noPrice # activeOrders[n].price
              /\ getOpportunity(activeOrders[n].marketId).yesPrice = activeOrders[y].price

----------------------------------------------------------------------------
(* Properties of the running bot over several polls, checked under Spec *)

\* the venue records already emitted for wallet w
EmittedFills(w) == { tradeHistory[w][i].fill : i \in 1..Len(tradeHistory[w]) }

\* C35: every emitted event gets exactly one processing attempt: the event is
\* in the wallet's history before the callback runs, and a venue record that
\* has been emitted for a wallet is never emitted for it again on a later
\* poll, whatever became of its first attempt.
C35_EmittedOnlyOnce ==
    [][\A w \in Wallets :
          Emitted(w) =>
             /\ tradeHistory'[w] = Append(tradeHistory[w], EmittedTrade(w))
             /\ EmittedTrade(w).fill \notin EmittedFills(w)]_vars

----------------------------------------------------------------------------
(* Properties of the bot with its status loop, checked under SpecComposed *)

\* C36: in the composed system nothing calls closePosition: a market's
\* position list only grows at its end, total exposure and the number of open
\* positions never decrease, dailyPnl stays 0, and with maxDailyLossUsd > 0
\* the daily-loss check of canOpenPosition rejects no request.
C36_NothingCloses ==
    /\ [](dailyPnl = 0)
    /\ [](config.maxDailyLossUsd > 0 =>
             \A m \in Markets, sz \in SizesUsd : canOpenVerdict(m, sz) # "daily_loss")
    /\ [][/\ totalExposure' >= totalExposure
          /\ \A m \in Markets :
                /\ Len(positions'[m]) >= Len(positions[m])
                /\ SubSeq(positions'[m], 1, Len(positions[m])) = positions[m]]_vars

\* positions are open, a day has passed and the status loop has reported
\* since, and a further request was rejected by the risk gate
C36_Witness ==
    /\ totalExposure > 0
    /\ lastResetDate > 0
    /\ riskRet.op = "getExposure"
    /\ \E w \in Wallets : lastOutcome[w].result = "risk_rejected"

----------------------------------------------------------------------------
(* Properties of the engine's key and of its execution branch, checked under
   SpecEngine *)

\* the trades without a transaction id that wallet w's engine has copied
CopiedUntagged(w) ==
    { t \in EngineTrades(w) : t.txHash = None /\ t.fill \in Range(copiedFills[w]) }

SameTriple(a, b) ==
    a.marketId = b.marketId /\ a.outcome = b.outcome /\ a.side = b.side

\* C37: the composite key carries the transaction id even when there is none,
\* so once an engine has copied an event without a transaction id, every later
\* event without one for the same market, outcome and side is skipped by that
\* engine as already copied, whatever its timestamp: no order is placed and
\* nothing is recorded.
C37_UntaggedEventsShareOneKey ==
    [][\A w \in Wallets : \A trade \in EngineTrades(w) :
          (/\ ProcessTradeCall(w, trade)
           /\ trade.txHash = None
           /\ \E prev \in CopiedUntagged(w) : SameTriple(prev, trade)) =>
              /\ lastOutcome'[w] =
                    [fill |-> trade.fill, result |-> "already_copied", orders |-> {}]
              /\ UNCHANGED <<call, activeOrders, positions, totalExposure,
                             copiedTrades, copiedFills>>]_vars

\* the directional engine copied the event of time 1 and then skipped the
\* event of time 1000 in the same market, outcome and side
C37_Witness ==
    /\ copiedFills["w2"] = <<"d">>
    /\ lastOutcome["w2"] = [fill |-> "e", result |-> "already_copied", orders |-> {}]
    /\ totalExposure = 500

\* the order appended in this step
NewOrder == activeOrders'[Len(activeOrders')]

OrderAdded == Len(activeOrders') > Len(activeOrders)

----------------------------------------------------------------------------
(* Properties of the watermark, checked under Spec *)

\* C39: a wallet's watermark is unset until the wallet's first emission and
\* from then on equals the timestamp of the event emitted last for the
\* wallet, also when that timestamp is earlier than the one before.
C39_WatermarkIsLastEmitted ==
    \A w \in Wallets :
        lastTradeTimestamps[w] =
            IF tradeHistory[w] = <<>> THEN NoTime
            ELSE tradeHistory[w][Len(tradeHistory[w])].timestamp

\* the event emitted last is older than the one emitted before it and the
\* watermark has moved back to its timestamp
C39_Witness ==
    \E w \in Wallets :
        LET h == tradeHistory[w]
        IN /\ Len(h) >= 2
           /\ h[Len(h)].timestamp < h[Len(h) - 1].timestamp
           /\ lastTradeTimestamps[w] = h[Len(h)].timestamp

----------------------------------------------------------------------------
(* Properties of mirrored sells in the ledger, checked under SpecMirror *)

\* the positions of side sell in a market's list, in order
SellsOf(ps) ==
    LET IsSell(p) == p.side = "sell"
    IN SelectSeq(ps, IsSell)

\* C40: a directional mirror of a sell event appends a position of side sell
\* to the market's list, leaves the positions already there as they are, and
\* raises the total and the market's exposure by the sized notional; no step,
\* closePosition included, removes a position of side sell, so the exposure
\* it added stays.
C40_SellMirrorAddsForGood ==
    [][/\ \A w \in Wallets :
             (pc[w] = "place" /\ call[w].trade.side = "sell" /\ ReturnsCopied(w)) =>
                LET c == call[w]
                    m == c.trade.marketId
                IN /\ positions'[m] =
                         Append(positions[m],
                                [outcome |-> c.trade.outcome, side |-> "sell",
                                 sizeUsd |-> c.positionSizeUsd, entryPrice |-> 0])
                   /\ totalExposure' = totalExposure + c.positionSizeUsd
                   /\ SumSizes(positions'[m]) = SumSizes(positions[m]) + c.positionSizeUsd
                   /\ c.positionSizeUsd > 0
       /\ \A m \in Markets :
             LET before == SellsOf(positions[m])
                 after == SellsOf(positions'[m])
             IN /\ Len(after) >= Len(before)
                /\ SubSeq(after, 1, Len(before)) = before]_vars

\* the mirrored sell of YES is the only position of market m1 and a
\* closePosition for YES has just returned null; the exposure is still 500
C40_Witness ==
    /\ lastOutcome["w2"].fill = "g" /\ lastOutcome["w2"].result = "copied"
    /\ Len(positions["m1"]) = 1
    /\ positions["m1"][1].side = "sell" /\ positions["m1"][1].outcome = "YES"
    /\ riskRet.op = "closePosition" /\ ~riskRet.ok
    /\ totalExposure = 500

====
